---------------------------- MODULE Spec2Model ----------------------------
(***************************************************************************)
(* A model of the growstocks client library (BobDotCom/growstocks):        *)
(* the Scopes value object, the URL builders of the Auth and Pay endpoint  *)
(* groups, the User value object with its decoder and its iterator, the    *)
(* Transaction value object with its decoder, the POST operations of Auth  *)
(* and Pay on a requests session and on an aiohttp session, two clients    *)
(* built with the default of default_scopes, and two consumers of the      *)
(* iterator of one User.                                                   *)
(*                                                                         *)
(* Python strings are modelled as sequences of character codes, so that    *)
(* base64, percent-encoding, str.format and str.join are computed the way  *)
(* the library computes them.  Python values that may be None, an int or a *)
(* str are modelled as records [kind, i, s].                               *)
(***************************************************************************)
EXTENDS Integers, Sequences, FiniteSets, TLC

VARIABLES
    \* ---- Scopes (scopes.py)
    sc_args,      \* the arguments of the last Scopes(...) call
    scopes,       \* the Scopes object: its four attributes
    sc_op,        \* the last operation on the Scopes object
    sc_list,      \* what as_list last returned
    sc_str,       \* what str(scopes) last returned
    \* ---- Client, Auth.make_url, Pay.make_payment_url (client.py, wrapper.py)
    client,       \* the Client object: its configuration attributes
    call,         \* the URL-builder call made: its name and arguments
    result,       \* its outcome: a returned URL or a raised exception
    \* ---- User (user.py)
    wire,         \* the dict given to User.from_dict
    wire_legacy,  \* whether it is the from_dict of __init__.py that is called
    user,         \* the User object: its six attributes
    decoded,      \* the outcome of the User.from_dict call
    user_n,       \* User._n, the iteration cursor ("unset" before any iter())
    it_state,     \* the position of the consumer of the iterator
    out,          \* the pairs the consumer has received from __next__
    encoded,      \* what user.as_dict() returned, once it was called
    redecoded,    \* the outcome of User.from_dict on that dict
    \* ---- Transaction (transaction.py)
    t_call,       \* the call that builds the Transaction: its name and arguments
    txn,          \* its outcome: the Transaction object or a raised exception
    paid_read,    \* the outcome of reading txn.paid
    \* ---- The POST operations of Auth and Pay (wrapper.py)
    req,          \* the call made: the operation, the client and the arguments
    server,       \* what the server answers to a request
    sent,         \* the HTTP requests the transport has issued, in order
    pc,           \* where the call is: "idle", "coro", "response", "except", "done"
    outcome,      \* what the call, awaited if it is a coroutine, ended with
    resp,         \* what session.post was given: the URL and the payload
    awaited,      \* the await expressions ret_coro has evaluated, in order
    \* ---- Two clients and their default scopes (client.py)
    heap,         \* the Scopes objects there are, by the name of who built them
    clients,      \* clients "a" and "b": built or not, and the object that
                  \* default_scopes refers to
    seen,         \* what client "b" last serialized: a URL or a payload
    \* ---- A second consumer of iter(user) (user.py)
    it2_state,    \* the position of the second consumer of the iterator
    out2          \* the pairs the second consumer has received from __next__

scopesVars == <<sc_args, scopes, sc_op, sc_list, sc_str>>
urlVars    == <<client, call, result>>
userVars   == <<wire, wire_legacy, user, decoded, user_n, it_state, out,
                 encoded, redecoded>>
txnVars    == <<t_call, txn, paid_read>>
postVars   == <<req, server, sent, pc, outcome, resp, awaited>>
defaultsVars == <<heap, clients, seen>>
iterVars   == <<it2_state, out2>>
vars       == <<scopesVars, urlVars, userVars, txnVars, postVars, defaultsVars, iterVars>>

-----------------------------------------------------------------------------
(* Bounds of the model *)

\* The longest redirect URI given to a URL builder.
MaxLen == 3

-----------------------------------------------------------------------------
(* Python values *)

None     == [kind |-> "none", i |-> 0, s |-> <<>>]
PyInt(n) == [kind |-> "int",  i |-> n, s |-> <<>>]
PyStr(x) == [kind |-> "str",  i |-> 0, s |-> x]

\* String literals of the source, as character codes.
S_profile      == <<112, 114, 111, 102, 105, 108, 101>>            \* 'profile'
S_email        == <<101, 109, 97, 105, 108>>                       \* 'email'
S_balance      == <<98, 97, 108, 97, 110, 99, 101>>                \* 'balance'
S_discord      == <<100, 105, 115, 99, 111, 114, 100>>             \* 'discord'
S_comma        == <<44>>                                           \* ','

RECURSIVE Join(_, _)
\* sep.join(parts)
Join(sep, parts) ==
    IF parts = <<>> THEN <<>>
    ELSE IF Len(parts) = 1 THEN parts[1]
    ELSE parts[1] \o sep \o Join(sep, Tail(parts))

RECURSIVE SplitOn(_, _)
\* s.split(c): the fields of s between the occurrences of the character c
SplitOn(s, c) ==
    IF \A j \in 1..Len(s) : s[j] # c THEN <<s>>
    ELSE LET k == CHOOSE j \in 1..Len(s) : s[j] = c /\ \A m \in 1..(j - 1) : s[m] # c
         IN  <<SubSeq(s, 1, k - 1)>> \o SplitOn(SubSeq(s, k + 1, Len(s)), c)

-----------------------------------------------------------------------------
(* Scopes: scopes.py *)

\* A plausible slip: the balance/discord rule dropped.
Scopes_init_NoForce(profile, email, balance, discord) ==
    [profile |-> IF email THEN FALSE ELSE profile,
     email |-> email, balance |-> balance, discord |-> discord]

\* A plausible slip: `balance and discord` for `balance or discord`.
Scopes_init_And(profile, email, balance, discord) ==
    LET p1 == IF balance /\ discord THEN TRUE ELSE profile
        p2 == IF email THEN FALSE ELSE p1
    IN  [profile |-> p2, email |-> email, balance |-> balance, discord |-> discord]

\* A plausible slip: the two rules in the other order.
Scopes_init_Swapped(profile, email, balance, discord) ==
    LET p1 == IF email THEN FALSE ELSE profile
        p2 == IF balance \/ discord THEN TRUE ELSE p1
    IN  [profile |-> p2, email |-> email, balance |-> balance, discord |-> discord]

\* Scopes.__init__: `if balance or discord: profile = True`, then
\* `if email: profile = False`, then the four attributes are stored.
Scopes_init(profile, email, balance, discord) ==
    LET p1 == IF balance \/ discord THEN TRUE ELSE profile
        p2 == IF email THEN FALSE ELSE p1
    IN  [profile |-> p2, email |-> email, balance |-> balance, discord |-> discord]

\* A plausible slip: the dict built with its keys sorted.
as_dict_Sorted(s) ==
    << <<S_balance, s.balance>>, <<S_discord, s.discord>>,
       <<S_email, s.email>>, <<S_profile, s.profile>> >>

\* Scopes.as_dict: a dict keeps insertion order, so it is the sequence of its items.
as_dict(s) ==
    << <<S_profile, s.profile>>, <<S_email, s.email>>,
       <<S_balance, s.balance>>, <<S_discord, s.discord>> >>

\* Scopes.as_list: [k for k, v in self.as_dict.items() if v]
as_list(s) ==
    LET kept == SelectSeq(as_dict(s), LAMBDA kv : kv[2])
    IN  [j \in 1..Len(kept) |-> kept[j][1]]

\* Scopes.__str__: ','.join(self.as_list)
Scopes_str(s) == Join(S_comma, as_list(s))

ScopeAttrs == {"profile", "email", "balance", "discord"}

\* Scopes(profile, email, balance, discord); an omitted argument is its default.
ScopesConstruct ==
    /\ \E p \in BOOLEAN, e \in BOOLEAN, b \in BOOLEAN, d \in BOOLEAN :
          /\ sc_args' = [profile |-> p, email |-> e, balance |-> b, discord |-> d]
          /\ scopes' = Scopes_init(p, e, b, d)
    /\ sc_op' = "init"
    /\ UNCHANGED <<sc_list, sc_str>>

\* scopes.<attr> = v: the attributes are plain instance attributes.
ScopesSetAttr ==
    /\ \E a \in ScopeAttrs, v \in BOOLEAN : scopes' = [scopes EXCEPT ![a] = v]
    /\ sc_op' = "setattr"
    /\ UNCHANGED <<sc_args, sc_list, sc_str>>

\* scopes.as_list and str(scopes)
ScopesSerialize ==
    /\ sc_list' = as_list(scopes)
    /\ sc_str' = Scopes_str(scopes)
    /\ sc_op' = "str"
    /\ UNCHANGED <<sc_args, scopes>>

-----------------------------------------------------------------------------
(* str(int), base64.b64encode, urllib.parse.quote_plus and urlencode, str.format *)

RECURSIVE Digits(_)
Digits(n) == IF n < 10 THEN <<48 + n>> ELSE Digits(n \div 10) \o <<48 + (n % 10)>>

\* str(n) for an int n
StrOfInt(n) == IF n < 0 THEN <<45>> \o Digits(0 - n) ELSE Digits(n)

\* str(v) for a value that is None, an int or a str
StrOf(v) ==
    IF v.kind = "none" THEN <<78, 111, 110, 101>>     \* 'None'
    ELSE IF v.kind = "int" THEN StrOfInt(v.i)
    ELSE v.s

\* s.encode('ascii') succeeds iff every character is below 128.
IsAscii(s) == \A j \in 1..Len(s) : s[j] < 128

\* A plausible slip: the URL-safe alphabet ('-' and '_' for '+' and '/').
B64Char_UrlSafe(v) ==
    IF v < 26 THEN 65 + v
    ELSE IF v < 52 THEN 97 + (v - 26)
    ELSE IF v < 62 THEN 48 + (v - 52)
    ELSE IF v = 62 THEN 45 ELSE 95

\* The standard base64 alphabet: A-Z, a-z, 0-9, '+', '/'.
B64Char(v) ==
    IF v < 26 THEN 65 + v
    ELSE IF v < 52 THEN 97 + (v - 26)
    ELSE IF v < 62 THEN 48 + (v - 52)
    ELSE IF v = 62 THEN 43 ELSE 47

RECURSIVE b64encode(_)
\* base64.b64encode(bs).decode('ascii'): three bytes make four characters, a
\* last group of one or two bytes is padded with '='.
b64encode(bs) ==
    IF bs = <<>> THEN <<>>
    ELSE IF Len(bs) = 1 THEN
        << B64Char(bs[1] \div 4), B64Char((bs[1] % 4) * 16), 61, 61 >>
    ELSE IF Len(bs) = 2 THEN
        << B64Char(bs[1] \div 4),
           B64Char((bs[1] % 4) * 16 + (bs[2] \div 16)),
           B64Char((bs[2] % 16) * 4), 61 >>
    ELSE
        << B64Char(bs[1] \div 4),
           B64Char((bs[1] % 4) * 16 + (bs[2] \div 16)),
           B64Char((bs[2] % 16) * 4 + (bs[3] \div 64)),
           B64Char(bs[3] % 64) >> \o b64encode(SubSeq(bs, 4, Len(bs)))

HexDigit(d) == IF d < 10 THEN 48 + d ELSE 55 + d

IsUnreserved(c) ==
    \/ c \in 65..90 \/ c \in 97..122 \/ c \in 48..57
    \/ c \in {95, 46, 45, 126}                        \* '_', '.', '-', '~'

RECURSIVE quote_plus(_)
\* urllib.parse.quote_plus on an ASCII string: letters, digits and _.-~ are
\* kept, a space becomes '+', every other character becomes %XX.
quote_plus(s) ==
    IF s = <<>> THEN <<>>
    ELSE (IF IsUnreserved(s[1]) THEN <<s[1]>>
          ELSE IF s[1] = 32 THEN <<43>>
          ELSE <<37, HexDigit(s[1] \div 16), HexDigit(s[1] % 16)>>)
         \o quote_plus(Tail(s))

\* urlencode of a dict given as the sequence of its (key, value) items:
\* '&'.join(quote_plus(k) + '=' + quote_plus(v))
urlencode(items) ==
    Join(<<38>>, [j \in 1..Len(items) |->
                     quote_plus(items[j][1]) \o <<61>> \o quote_plus(items[j][2])])

FmtOk(s)    == [ok |-> TRUE,  s |-> s,    exc |-> ""]
FmtErr(exc) == [ok |-> FALSE, s |-> <<>>, exc |-> exc]
FmtCons(head, rest) == IF rest.ok THEN FmtOk(head \o rest.s) ELSE rest

RECURSIVE FormatFrom(_, _, _, _)
\* template.format(arg) with the one positional argument arg, scanned from the
\* left: '{{' and '}}' are the literal braces, '{}' is the next automatic field,
\* '{0}' the field numbered 0; `auto` counts the automatic fields seen and
\* `manual` records that a numbered field was seen.
FormatFrom(t, arg, auto, manual) ==
    IF t = <<>> THEN FmtOk(<<>>)
    ELSE IF t[1] = 123 THEN
        IF Len(t) >= 2 /\ t[2] = 123
        THEN FmtCons(<<123>>, FormatFrom(SubSeq(t, 3, Len(t)), arg, auto, manual))
        ELSE IF Len(t) >= 2 /\ t[2] = 125
        THEN IF manual THEN FmtErr("ValueError")
             ELSE IF auto >= 1 THEN FmtErr("IndexError")
             ELSE FmtCons(arg, FormatFrom(SubSeq(t, 3, Len(t)), arg, auto + 1, manual))
        ELSE IF Len(t) >= 3 /\ t[2] \in 48..57 /\ t[3] = 125
        THEN IF auto >= 1 THEN FmtErr("ValueError")
             ELSE IF t[2] # 48 THEN FmtErr("IndexError")
             ELSE FmtCons(arg, FormatFrom(SubSeq(t, 4, Len(t)), arg, auto, TRUE))
        ELSE FmtErr("ValueError")
    ELSE IF t[1] = 125 THEN
        IF Len(t) >= 2 /\ t[2] = 125
        THEN FmtCons(<<125>>, FormatFrom(SubSeq(t, 3, Len(t)), arg, auto, manual))
        ELSE FmtErr("ValueError")
    ELSE LET braces == {j \in 1..Len(t) : t[j] \in {123, 125}}
             stop   == IF braces = {} THEN Len(t) + 1
                       ELSE CHOOSE j \in braces : \A m \in braces : j <= m
         IN  \* the characters up to the next brace are copied as they are
             FmtCons(SubSeq(t, 1, stop - 1),
                     FormatFrom(SubSeq(t, stop, Len(t)), arg, auto, manual))

\* template.format(arg)
Format(t, arg) == FormatFrom(t, arg, 0, FALSE)

-----------------------------------------------------------------------------
(* Client: client.py, and the Client of the single-file module __init__.py *)

S_authorize    == <<104, 116, 116, 112, 115, 58, 47, 47, 97, 117, 116, 104, 46,
                    103, 114, 111, 119, 115, 116, 111, 99, 107, 115, 46, 120, 121,
                    122, 47, 117, 115, 101, 114, 47, 97, 117, 116, 104, 111, 114,
                    105, 122, 101>>      \* 'https://auth.growstocks.xyz/user/authorize'
S_pay          == <<104, 116, 116, 112, 115, 58, 47, 47, 112, 97, 121, 46, 103,
                    114, 111, 119, 115, 116, 111, 99, 107, 115, 46, 120, 121, 122,
                    47, 112, 97, 121>>   \* 'https://pay.growstocks.xyz/pay'
S_client       == <<99, 108, 105, 101, 110, 116>>                            \* 'client'
S_scopes       == <<115, 99, 111, 112, 101, 115>>                            \* 'scopes'
S_redirect_uri == <<114, 101, 100, 105, 114, 101, 99, 116, 95, 117, 114, 105>>
                                                                       \* 'redirect_uri'
S_transaction  == <<116, 114, 97, 110, 115, 97, 99, 116, 105, 111, 110>> \* 'transaction'

\* A Scopes argument that may be None.
NoScopes       == [given |-> FALSE, v |-> Scopes_init(TRUE, FALSE, FALSE, FALSE)]
SomeScopes(s)  == [given |-> TRUE, v |-> s]

\* str(scopes) where scopes is a Scopes object or None
StrOfScopes(o) == IF o.given THEN Scopes_str(o.v) ELSE StrOf(None)

\* A default_redirects argument that may be None.
NoDict         == [given |-> FALSE, d |-> [site |-> None]]
SomeDict(d)    == [given |-> TRUE, d |-> d]

\* client.py: DefaultRedirects(site='', auth=None, pay=None)
DefaultRedirects == [site |-> PyStr(<<>>), auth |-> None, pay |-> None]

\* __init__.py: the default dict of the single-file Client has no 'pay' key.
LegacyDefaultRedirects == [site |-> PyStr(<<>>), auth |-> None]

\* Client.__init__(client, secret, default_scopes=Scopes(), default_redirects=None);
\* `legacy` tells the Client of __init__.py from the Client of client.py.  The
\* session is requests.session().
Client_init(legacy, id, secret, default_scopes, default_redirects) ==
    [legacy            |-> legacy,
     client            |-> id,
     secret            |-> secret,
     session           |-> "requests",
     default_scopes    |-> default_scopes,
     default_redirects |-> IF default_redirects.given THEN default_redirects.d
                           ELSE IF legacy THEN LegacyDefaultRedirects
                           ELSE DefaultRedirects]

\* Client.__init__ of aio/__init__.py: super().__init__(...), then the session
\* is replaced by an aiohttp.ClientSession(), whose post() returns an awaitable.
AioClient_init(id, secret, default_scopes, default_redirects) ==
    [Client_init(FALSE, id, secret, default_scopes, default_redirects)
        EXCEPT !.session = "aiohttp"]

\* The client id and the secret of the test fixture, growstocks.Client(12345, 'test').
TestClientId == 12345
TestSecret   == <<116, 101, 115, 116>>                                  \* 'test'

\* The transaction id given to make_payment_url.
TestTransactionId == 5

-----------------------------------------------------------------------------
(* Auth.make_url and Pay.make_payment_url: wrapper.py (and __init__.py) *)

Return(url) == [kind |-> "return", exc |-> "",  url |-> url]
Raise(exc)  == [kind |-> "raise",  exc |-> exc, url |-> <<>>]
NoResult    == [kind |-> "none",   exc |-> "",  url |-> <<>>]

\* The exception raised for a redirect that is None: RedirectUriNone in
\* wrapper.py, ValueError in __init__.py.
RedirectError(cl) == IF cl.legacy THEN "ValueError" ELSE "RedirectUriNone"

\* A plausible slip: the default is looked up and checked before the argument.
ResolveRedirect_DefaultFirst(redirect_uri, cl, key) ==
    LET dr == cl.default_redirects IN
    IF key \notin DOMAIN dr THEN FmtErr("KeyError")
    ELSE IF dr[key].kind = "none" THEN FmtErr(RedirectError(cl))
    ELSE IF redirect_uri.kind # "none" THEN FmtOk(redirect_uri.s)
    ELSE IF "site" \notin DOMAIN dr THEN FmtErr("KeyError")
    ELSE Format(dr[key].s, StrOf(dr["site"]))

\* A plausible slip: the inner `is None` check left out.
ResolveRedirect_NoNoneCheck(redirect_uri, cl, key) ==
    LET dr == cl.default_redirects IN
    IF redirect_uri.kind # "none" THEN FmtOk(redirect_uri.s)
    ELSE IF key \notin DOMAIN dr THEN FmtErr("KeyError")
    ELSE IF dr[key].kind = "none" THEN FmtErr("AttributeError")
    ELSE IF "site" \notin DOMAIN dr THEN FmtErr("KeyError")
    ELSE Format(dr[key].s, StrOf(dr["site"]))

\* A plausible slip: the site is substituted into an explicit redirect too.
ResolveRedirect_FormatAlways(redirect_uri, cl, key) ==
    LET dr == cl.default_redirects IN
    IF redirect_uri.kind # "none"
    THEN IF "site" \notin DOMAIN dr THEN FmtErr("KeyError")
         ELSE Format(redirect_uri.s, StrOf(dr["site"]))
    ELSE IF key \notin DOMAIN dr THEN FmtErr("KeyError")
    ELSE IF dr[key].kind = "none" THEN FmtErr(RedirectError(cl))
    ELSE IF "site" \notin DOMAIN dr THEN FmtErr("KeyError")
    ELSE Format(dr[key].s, StrOf(dr["site"]))

\* A plausible slip: the default template is used as it is, without format().
ResolveRedirect_NoFormat(redirect_uri, cl, key) ==
    LET dr == cl.default_redirects IN
    IF redirect_uri.kind # "none" THEN FmtOk(redirect_uri.s)
    ELSE IF key \notin DOMAIN dr THEN FmtErr("KeyError")
    ELSE IF dr[key].kind = "none" THEN FmtErr(RedirectError(cl))
    ELSE IF "site" \notin DOMAIN dr THEN FmtErr("KeyError")
    ELSE FmtOk(dr[key].s)

\* The first lines of make_url (key 'auth') and of make_payment_url (key 'pay'):
\*   if redirect_uri is None:
\*       redirect_uri = self.client.default_redirects[key]
\*       if redirect_uri is None: raise RedirectUriNone(...)
\*       else: redirect_uri = redirect_uri.format(self.client.default_redirects['site'])
\* A key the dict does not hold raises KeyError.
ResolveRedirect(redirect_uri, cl, key) ==
    LET dr == cl.default_redirects IN
    IF redirect_uri.kind # "none" THEN FmtOk(redirect_uri.s)
    ELSE IF key \notin DOMAIN dr THEN FmtErr("KeyError")
    ELSE IF dr[key].kind = "none" THEN FmtErr(RedirectError(cl))
    ELSE IF "site" \notin DOMAIN dr THEN FmtErr("KeyError")
    ELSE Format(dr[key].s, StrOf(dr["site"]))

\* Auth.make_url(redirect_uri, scopes)
make_url(cl, redirect_uri, scopes_arg) ==
    LET r       == ResolveRedirect(redirect_uri, cl, "auth")
        scopes_ == IF scopes_arg.given THEN scopes_arg ELSE cl.default_scopes
    IN  IF ~r.ok THEN Raise(r.exc)
        ELSE IF ~IsAscii(r.s) THEN Raise("UnicodeEncodeError")
        ELSE Return(S_authorize \o <<63>> \o
                    urlencode(<< <<S_client, StrOfInt(cl.client)>>,
                                 <<S_scopes, StrOfScopes(scopes_)>>,
                                 <<S_redirect_uri, b64encode(r.s)>> >>))

\* Pay.make_payment_url(transaction, redirect_uri)
make_payment_url(cl, transaction_id, redirect_uri) ==
    LET r == ResolveRedirect(redirect_uri, cl, "pay")
    IN  IF ~r.ok THEN Raise(r.exc)
        ELSE IF ~IsAscii(r.s) THEN Raise("UnicodeEncodeError")
        ELSE Return(S_pay \o <<63>> \o
                    urlencode(<< <<S_client, StrOfInt(cl.client)>>,
                                 <<S_redirect_uri, b64encode(r.s)>>,
                                 <<S_transaction, StrOfInt(transaction_id)>> >>))

\* The characters of the redirect URIs tried: '~' and '?' (whose base64 holds
\* '+' and '/'), '{' and '}' (the braces of str.format) and a non-ASCII 'e-acute'.
Alphabet == {126, 63, 123, 125, 233}

StringsUpTo(n) == UNION {[1..k -> Alphabet] : k \in 0..n}

\* An explicit redirect URI, or None.
RedirectUris == {None} \cup {PyStr(s) : s \in StringsUpTo(MaxLen)}

\* The default_redirects given to Client(...): none, or a dict holding any of the
\* accepted keys 'site', 'auth', 'pay'.
RedirectArgs ==
    { NoDict,
      SomeDict([site |-> PyStr(<<115>>), auth |-> PyStr(<<123, 48, 125, 47, 97>>),
                pay |-> PyStr(<<123, 125, 47, 112>>)]),       \* 's', '{0}/a', '{}/p'
      SomeDict([site |-> PyStr(<<115>>), auth |-> None,
                pay |-> PyStr(<<112>>)]),                     \* 's', None, 'p'
      SomeDict([site |-> PyStr(<<>>), auth |-> None]),        \* no 'pay' key
      SomeDict([auth |-> PyStr(<<123, 48, 125>>),
                pay |-> PyStr(<<123, 48, 125>>)]),            \* no 'site' key
      SomeDict([site |-> PyStr(<<115>>), auth |-> PyStr(<<123>>),
                pay |-> PyStr(<<123, 49, 125>>)]) }           \* 's', '{', '{1}'

\* The scopes given to make_url, and the default_scopes given to Client(...).
ScopesArgs == { NoScopes,
                SomeScopes(Scopes_init(FALSE, FALSE, FALSE, FALSE)),
                SomeScopes(Scopes_init(TRUE, TRUE, TRUE, FALSE)) }

DefaultScopesArgs == { SomeScopes(Scopes_init(TRUE, FALSE, FALSE, FALSE)),
                       SomeScopes(Scopes_init(FALSE, TRUE, FALSE, TRUE)) }

NoCall == [op |-> "none", redirect_uri |-> None, scopes |-> NoScopes, transaction |-> 0]

\* The calls of the URL builders, with their arguments.
Calls ==
    {[op |-> "make_url", redirect_uri |-> ru, scopes |-> sa, transaction |-> 0] :
         ru \in RedirectUris, sa \in ScopesArgs}
    \cup
    {[op |-> "make_payment_url", redirect_uri |-> ru, scopes |-> NoScopes,
      transaction |-> TestTransactionId] : ru \in RedirectUris}

\* client.auth.make_url(redirect_uri, scopes), with the arguments of `call`
MakeUrl ==
    /\ call.op = "make_url"
    /\ result.kind = "none"
    /\ result' = make_url(client, call.redirect_uri, call.scopes)
    /\ UNCHANGED <<client, call>>

\* client.pay.make_payment_url(transaction, redirect_uri), with the arguments of `call`
MakePaymentUrl ==
    /\ call.op = "make_payment_url"
    /\ result.kind = "none"
    /\ result' = make_payment_url(client, call.transaction, call.redirect_uri)
    /\ UNCHANGED <<client, call>>

-----------------------------------------------------------------------------
(* User: user.py, and the User of the single-file module __init__.py *)

S_id           == <<105, 100>>                                        \* 'id'
S_name         == <<110, 97, 109, 101>>                               \* 'name'
S_growid       == <<103, 114, 111, 119, 105, 100>>                    \* 'growid'
S_discordID    == <<100, 105, 115, 99, 111, 114, 100, 73, 68>>        \* 'discordID'
S_discord_id   == <<100, 105, 115, 99, 111, 114, 100, 95, 105, 100>>  \* 'discord_id'

\* User.__init__ stores its six arguments; `legacy` tells the User of
\* __init__.py from the User of user.py.
User_init(legacy, id, name, email, growid, balance, discord_id) ==
    [legacy |-> legacy, id |-> id, name |-> name, email |-> email,
     growid |-> growid, balance |-> balance, discord_id |-> discord_id]

\* input_dict.get(key): the value, or None for a key the dict does not hold
Get(d, key) == IF key \in DOMAIN d THEN d[key] ELSE None

IsDigits(s) == Len(s) >= 1 /\ \A j \in 1..Len(s) : s[j] \in 48..57

RECURSIVE DigitsValue(_)
DigitsValue(s) ==
    IF s = <<>> THEN 0
    ELSE DigitsValue(SubSeq(s, 1, Len(s) - 1)) * 10 + (s[Len(s)] - 48)

\* int(v) succeeds on an int and on a str of decimal digits with an optional sign.
IntOk(v) ==
    \/ v.kind = "int"
    \/ /\ v.kind = "str"
       /\ \/ IsDigits(v.s)
          \/ Len(v.s) >= 2 /\ v.s[1] \in {43, 45} /\ IsDigits(Tail(v.s))

\* int(v), where IntOk(v)
IntOf(v) ==
    IF v.kind = "int" THEN v.i
    ELSE IF v.s[1] = 45 THEN 0 - DigitsValue(Tail(v.s))
    ELSE IF v.s[1] = 43 THEN DigitsValue(Tail(v.s))
    ELSE DigitsValue(v.s)

Decoded(u)   == [kind |-> "return", exc |-> "",  user |-> u]
DecodeErr(e) == [kind |-> "raise",  exc |-> e,
                 user |-> User_init(FALSE, None, None, None, None, None, None)]
NoDecode     == [kind |-> "none",   exc |-> "",
                 user |-> User_init(FALSE, None, None, None, None, None, None)]

\* A plausible slip: a missing key read with a default of its type (0 or '').
from_dict_Sentinel(input_dict) ==
    LET discord_id == Get(input_dict, "discordID") IN
    IF "id" \notin DOMAIN input_dict THEN DecodeErr("KeyError")
    ELSE IF discord_id.kind # "none" /\ ~IntOk(discord_id) THEN DecodeErr("ValueError")
    ELSE Decoded(User_init(FALSE, input_dict["id"],
                           Get(input_dict, "name"),
                           Get(input_dict, "email"),
                           Get(input_dict, "growid"),
                           IF "balance" \in DOMAIN input_dict
                               THEN input_dict["balance"] ELSE PyInt(0),
                           IF discord_id.kind # "none"
                               THEN PyInt(IntOf(discord_id)) ELSE None))

\* User.from_dict of user.py:
\*   discord_id = input_dict.get('discordID')
\*   return cls(id=input_dict["id"], name=input_dict.get('name'), ...,
\*              discord_id=int(discord_id) if discord_id is not None else None)
from_dict(input_dict) ==
    LET discord_id == Get(input_dict, "discordID") IN
    IF "id" \notin DOMAIN input_dict THEN DecodeErr("KeyError")
    ELSE IF discord_id.kind # "none" /\ ~IntOk(discord_id) THEN DecodeErr("ValueError")
    ELSE Decoded(User_init(FALSE, input_dict["id"],
                           Get(input_dict, "name"),
                           Get(input_dict, "email"),
                           Get(input_dict, "growid"),
                           Get(input_dict, "balance"),
                           IF discord_id.kind # "none"
                               THEN PyInt(IntOf(discord_id)) ELSE None))

\* User.from_dict of __init__.py: six .get() calls, nothing coerced.
legacy_from_dict(input_dict) ==
    Decoded(User_init(TRUE, Get(input_dict, "id"),
                      Get(input_dict, "name"),
                      Get(input_dict, "email"),
                      Get(input_dict, "growid"),
                      Get(input_dict, "balance"),
                      Get(input_dict, "discordID")))

\* self_info of User.__next__: user.py pairs 'discordID' with str(self.discord_id),
\* __init__.py pairs 'discord_id' with self.discord_id.
self_info(u) ==
    << <<S_id, u.id>>, <<S_name, u.name>>, <<S_email, u.email>>,
       <<S_growid, u.growid>>, <<S_balance, u.balance>>,
       IF u.legacy THEN <<S_discord_id, u.discord_id>>
                   ELSE <<S_discordID, PyStr(StrOf(u.discord_id))>> >>

\* seq[k] of Python for -Len(seq) <= k < Len(seq): a negative index counts from the end.
PyIndex(seq, k) == IF k < 0 THEN seq[Len(seq) + k + 1] ELSE seq[k + 1]

\* The wire dicts given to from_dict: each key missing, or present with a value.
WireValues ==
    [id        |-> {PyInt(1916), PyStr(<<120, 49>>)},                 \* 1916, 'x1'
     name      |-> {None, PyStr(<<66, 111, 98>>)},                    \* None, 'Bob'
     email     |-> {PyStr(<<>>)},                                     \* ''
     growid    |-> {PyStr(<<78, 111, 110, 101>>)},                    \* 'None'
     balance   |-> {PyInt(0), PyInt(3)},
     discordID |-> {None, PyInt(42), PyStr(<<52, 50>>), PyStr(<<48, 48, 55>>),
                    PyStr(<<120, 49>>), PyStr(<<>>)}]      \* 42, '42', '007', 'x1', ''

WireKeys == {"id", "name", "email", "growid", "balance", "discordID"}

WireDicts ==
    UNION { {d \in [K -> UNION {WireValues[k] : k \in K}] :
                 \A k \in K : d[k] \in WireValues[k]} : K \in SUBSET WireKeys }

\* User.from_dict(wire), of user.py or (wire_legacy) of __init__.py: the User
\* it returns is a new object, on which nothing has iterated and of which no
\* dict has been taken.
FromDict ==
    /\ decoded.kind = "none"
    /\ decoded' = IF wire_legacy THEN legacy_from_dict(wire) ELSE from_dict(wire)
    /\ user' = IF decoded'.kind = "return" THEN decoded'.user ELSE user
    /\ user_n' = [set |-> FALSE, v |-> 0]
    /\ it_state' = "idle"
    /\ out' = <<>>
    /\ encoded' = NoDict
    /\ redecoded' = NoDecode
    /\ UNCHANGED <<wire, wire_legacy>>

\* iter(user): User.__iter__ sets self._n = 0 and returns self.
Iter ==
    /\ user_n' = [set |-> TRUE, v |-> 0]
    /\ it_state' = "iterating"
    /\ out' = <<>>
    /\ UNCHANGED <<wire, wire_legacy, user, decoded, encoded, redecoded>>

\* next(it): User.__next__
\*   if self._n <= len(self_info): ret = self_info[self._n - 1]; self._n += 1; return ret
\*   else: raise StopIteration
Next_ ==
    /\ it_state = "iterating"
    /\ IF user_n.v <= Len(self_info(user))
       THEN /\ out' = Append(out, PyIndex(self_info(user), user_n.v - 1))
            /\ user_n' = [user_n EXCEPT !.v = user_n.v + 1]
            /\ it_state' = "iterating"
       ELSE /\ it_state' = "stopped"
            /\ UNCHANGED <<out, user_n>>
    /\ UNCHANGED <<wire, wire_legacy, user, decoded, encoded, redecoded>>

\* it2 = iter(user), by a second consumer: __iter__ sets self._n = 0 and
\* returns self, so it2 is the user itself and its cursor is the one _n.
IterOther ==
    /\ it2_state = "idle"
    /\ user_n' = [set |-> TRUE, v |-> 0]
    /\ it2_state' = "iterating"
    /\ out2' = <<>>
    /\ UNCHANGED <<wire, wire_legacy, user, decoded, it_state, out, encoded, redecoded>>

\* next(it2): User.__next__ on the same object.
NextOther ==
    /\ it2_state = "iterating"
    /\ IF user_n.v <= Len(self_info(user))
       THEN /\ out2' = Append(out2, PyIndex(self_info(user), user_n.v - 1))
            /\ user_n' = [user_n EXCEPT !.v = user_n.v + 1]
            /\ it2_state' = "iterating"
       ELSE /\ it2_state' = "stopped"
            /\ UNCHANGED <<out2, user_n>>
    /\ UNCHANGED <<wire, wire_legacy, user, decoded, it_state, out, encoded, redecoded>>

\* User.as_dict of user.py: UserData(id=self.id, ..., discordID=str(self.discord_id)),
\* all six keys whatever the values; of __init__.py: dict(self), the dict of the
\* pairs of the iteration, whose sixth key is 'discord_id'.
User_as_dict(u) ==
    IF u.legacy
    THEN [id |-> u.id, name |-> u.name, email |-> u.email, growid |-> u.growid,
          balance |-> u.balance, discord_id |-> u.discord_id]
    ELSE [id |-> u.id, name |-> u.name, email |-> u.email, growid |-> u.growid,
          balance |-> u.balance, discordID |-> PyStr(StrOf(u.discord_id))]

\* user.as_dict(): both versions run dict(self), an iteration of the user from
\* iter() to StopIteration, which leaves _n one past the length of self_info.
AsDict ==
    /\ ~encoded.given
    /\ encoded' = SomeDict(User_as_dict(user))
    /\ user_n' = [set |-> TRUE, v |-> Len(self_info(user)) + 1]
    /\ UNCHANGED <<wire, wire_legacy, user, decoded, it_state, out, redecoded>>

\* User.from_dict(user.as_dict()), by the from_dict of the module of the user
FromEncoded ==
    /\ encoded.given
    /\ redecoded.kind = "none"
    /\ redecoded' = IF user.legacy THEN legacy_from_dict(encoded.d)
                                   ELSE from_dict(encoded.d)
    /\ UNCHANGED <<wire, wire_legacy, user, decoded, user_n, it_state, out, encoded>>

-----------------------------------------------------------------------------
(* datetime.datetime.strptime(value, '%Y-%m-%d %H:%M:%S') *)

PyBool(b) == [kind |-> "bool", i |-> IF b THEN 1 ELSE 0, s |-> <<>>]

\* A datetime.datetime: its year, month, day, hour, minute and second.
PyDatetime(f) == [kind |-> "datetime", i |-> 0, s |-> f]

\* A User object held as a value.
PyUser(u) == [kind |-> "user", i |-> 0, s |-> <<>>, u |-> u]

\* The characters that the \s of a regular expression matches, among ASCII.
IsSpace(c) == c \in {32, 9, 10, 11, 12, 13}

\* The number of leading characters of s that are decimal digits.
DigitRun(s) ==
    IF \A j \in 1..Len(s) : s[j] \in 48..57 THEN Len(s)
    ELSE (CHOOSE j \in 1..Len(s) :
              s[j] \notin 48..57 /\ \A m \in 1..(j - 1) : s[m] \in 48..57) - 1

\* The number of leading characters of s that are whitespace.
SpaceRun(s) ==
    IF \A j \in 1..Len(s) : IsSpace(s[j]) THEN Len(s)
    ELSE (CHOOSE j \in 1..Len(s) :
              ~IsSpace(s[j]) /\ \A m \in 1..(j - 1) : IsSpace(s[m])) - 1

\* A field of one or two digits whose value is between lo and hi.
IsField(f, lo, hi) ==
    IsDigits(f) /\ Len(f) <= 2 /\ DigitsValue(f) >= lo /\ DigitsValue(f) <= hi

IsLeapYear(y) == y % 4 = 0 /\ (y % 100 # 0 \/ y % 400 = 0)

DaysInMonth(y, m) ==
    IF m = 2 THEN (IF IsLeapYear(y) THEN 29 ELSE 28)
    ELSE IF m \in {4, 6, 9, 11} THEN 30 ELSE 31

StrpOk(f) == [ok |-> TRUE, dt |-> f]
StrpErr   == [ok |-> FALSE, dt |-> <<>>]

\* The text between the second '-' and the first ':': the day, one or more
\* whitespace characters, the hour.  The day is one or two digits,
\* or a space and one digit (the regular expression of %d).
DayAndHour(dh) ==
    LET lead == IF Len(dh) >= 1 /\ dh[1] = 32 THEN 1 ELSE 0
        body == SubSeq(dh, lead + 1, Len(dh))
        nd   == DigitRun(body)
        day  == SubSeq(body, 1, nd)
        rest == SubSeq(body, nd + 1, Len(body))
        ns   == SpaceRun(rest)
        hour == SubSeq(rest, ns + 1, Len(rest))
    IN  IF /\ IsField(day, 1, 31)
           /\ (lead = 1 => Len(day) = 1)
           /\ ns >= 1
           /\ IsField(hour, 0, 23)
        THEN StrpOk(<<DigitsValue(day), DigitsValue(hour)>>)
        ELSE StrpErr

\* datetime.datetime.strptime(value, '%Y-%m-%d %H:%M:%S') for a str value: %Y is
\* four digits, %m %d %H %M %S are one or two digits in their ranges, the space
\* of the format is any run of whitespace, nothing may follow the seconds;
\* then datetime(...) rejects year 0, a day past the end of the month and a
\* second above 59.  Every failure is a ValueError.
strptime(value) ==
    LET p1 == SplitOn(value, 45)
    IN  IF Len(p1) # 3 THEN StrpErr
        ELSE LET p2 == SplitOn(p1[3], 58)
             IN  IF Len(p2) # 3 THEN StrpErr
                 ELSE LET dh == DayAndHour(p2[1])
                      IN  IF /\ IsDigits(p1[1]) /\ Len(p1[1]) = 4
                             /\ IsField(p1[2], 1, 12)
                             /\ dh.ok
                             /\ IsField(p2[2], 0, 59)
                             /\ IsField(p2[3], 0, 61)
                          THEN LET y == DigitsValue(p1[1])
                                   m == DigitsValue(p1[2])
                                   sec == DigitsValue(p2[3])
                               IN  IF y >= 1 /\ dh.dt[1] <= DaysInMonth(y, m) /\ sec <= 59
                                   THEN StrpOk(<<y, m, dh.dt[1], dh.dt[2],
                                                 DigitsValue(p2[2]), sec>>)
                                   ELSE StrpErr
                          ELSE StrpErr

-----------------------------------------------------------------------------
(* Transaction: transaction.py *)

\* The attributes of a Transaction (the client reference left out).
Transaction_new(id, user_, party, amount, status, datetime_) ==
    [id |-> id, user |-> user_, party |-> party, amount |-> amount,
     status |-> status, datetime |-> datetime_]

TxnOk(t)  == [kind |-> "return", exc |-> "", t |-> t]
TxnErr(e) == [kind |-> "raise",  exc |-> e,
              t |-> Transaction_new(None, None, None, None, None, None)]
NoTxn     == [kind |-> "none",   exc |-> "",
              t |-> Transaction_new(None, None, None, None, None, None)]

\* The setter of Transaction.user: self._user = User(id=value), whatever value is.
user_setter(value) == User_init(FALSE, value, None, None, None, None, None)

\* Transaction.__init__(id, client, user, party, amount, status, date_time):
\* self.user = user goes through the setter; self.datetime is None unless
\* date_time is not None, and then set_datetime parses it with strptime, which
\* raises TypeError for a value that is not a str and ValueError for a str that
\* does not parse.
Transaction_init(id, user_, party, amount, status, date_time) ==
    IF date_time.kind = "none"
    THEN TxnOk(Transaction_new(id, user_setter(user_), party, amount, status, None))
    ELSE IF date_time.kind # "str" THEN TxnErr("TypeError")
    ELSE IF ~strptime(date_time.s).ok THEN TxnErr("ValueError")
    ELSE TxnOk(Transaction_new(id, user_setter(user_), party, amount, status,
                               PyDatetime(strptime(date_time.s).dt)))

TransactionKeys == {"id", "user", "party", "amount", "status", "date_time"}

\* Transaction.from_dict: six subscripts (KeyError for a missing key), then
\* cls(id=id_, user=User(id=user), party=party, amount=amount,
\*     status=int(status), date_time=date_time, client=client)
Transaction_from_dict(input_dict) ==
    IF \E k \in TransactionKeys : k \notin DOMAIN input_dict THEN TxnErr("KeyError")
    ELSE IF input_dict["status"].kind \notin {"int", "str"} THEN TxnErr("TypeError")
    ELSE IF ~IntOk(input_dict["status"]) THEN TxnErr("ValueError")
    ELSE Transaction_init(
             input_dict["id"],
             PyUser(User_init(FALSE, input_dict["user"], None, None, None, None, None)),
             input_dict["party"], input_dict["amount"],
             PyInt(IntOf(input_dict["status"])), input_dict["date_time"])

PaidOk(v)  == [kind |-> "return", exc |-> "", v |-> v]
PaidErr(e) == [kind |-> "raise",  exc |-> e,  v |-> None]
NoPaid     == [kind |-> "none",   exc |-> "", v |-> None]

\* A plausible slip: the truth value of the status itself, without int().
paid_Truthy(t) ==
    IF t.status.kind = "none" THEN PaidOk(None)
    ELSE IF t.status.kind = "str" THEN PaidOk(PyBool(Len(t.status.s) > 0))
    ELSE PaidOk(PyBool(t.status.i # 0))

\* Transaction.paid: bool(int(self.status)) if self.status is not None else None
paid(t) ==
    IF t.status.kind = "none" THEN PaidOk(None)
    ELSE IF t.status.kind \notin {"int", "str"} THEN PaidErr("TypeError")
    ELSE IF ~IntOk(t.status) THEN PaidErr("ValueError")
    ELSE PaidOk(PyBool(IntOf(t.status) # 0))

\* The date_time strings tried.
DateStrings ==
    { <<50, 48, 50, 49, 45, 48, 53, 45, 48, 49, 32, 49, 50, 58, 48, 48, 58, 48, 48>>,
                                                          \* '2021-05-01 12:00:00'
      <<50, 48, 50, 48, 45, 48, 50, 45, 50, 57, 32, 50, 51, 58, 53, 57, 58, 53, 57>>,
                                                          \* '2020-02-29 23:59:59'
      <<50, 48, 50, 49, 45, 53, 45, 49, 32, 49, 58, 50, 58, 51>>,
                                                          \* '2021-5-1 1:2:3'
      <<50, 48, 50, 49, 45, 48, 53, 45, 48, 49, 9, 49, 50, 58, 48, 48, 58, 48, 48>>,
                                                          \* '2021-05-01\t12:00:00'
      <<50, 48, 50, 49, 45, 48, 53, 45, 48, 49, 84, 49, 50, 58, 48, 48, 58, 48, 48>>,
                                                          \* '2021-05-01T12:00:00'
      <<50, 48, 50, 49, 45, 48, 50, 45, 51, 48, 32, 48, 48, 58, 48, 48, 58, 48, 48>>,
                                                          \* '2021-02-30 00:00:00'
      <<50, 48, 50, 49, 45, 48, 53, 45, 48, 49, 32, 49, 50, 58, 48, 48, 58, 54, 48>>,
                                                          \* '2021-05-01 12:00:60'
      <<50, 48, 50, 49, 45, 48, 53, 45, 48, 49, 32, 49, 50, 58, 48, 48>>,
                                                          \* '2021-05-01 12:00'
      <<48, 49, 47, 48, 53, 47, 50, 48, 50, 49, 32, 49, 50, 58, 48, 48, 58, 48, 48>>,
                                                          \* '01/05/2021 12:00:00'
      <<>> }                                              \* ''

\* A date_time: None, a str, or an int (which is not a str).
DateTimes == {None, PyInt(5)} \cup {PyStr(x) : x \in DateStrings}

\* A status: None, an int, or a str that int() may or may not accept.
Statuses == {None, PyInt(0), PyInt(1), PyInt(2),
             PyStr(<<48>>), PyStr(<<49>>), PyStr(<<120>>)}        \* '0', '1', 'x'

\* The wire dicts that hold all six keys.
TxnWireFull ==
    [id        : {PyInt(TestTransactionId)},
     user      : {PyInt(42)},
     party     : {PyInt(7)},
     amount    : {PyInt(5)},
     status    : Statuses,
     date_time : DateTimes]

\* The wire dicts given to Transaction.from_dict: each key missing, or present
\* with a value.
TxnWireDicts ==
    {[k \in K |-> f[k]] : f \in TxnWireFull, K \in SUBSET TransactionKeys}

NoTxnCall == [op |-> "none", d |-> <<>>, user |-> None, status |-> None,
              date_time |-> None]

\* The calls that build a Transaction, with their arguments.
TxnCalls ==
    {[op |-> "from_dict", d |-> d, user |-> None, status |-> None,
      date_time |-> None] : d \in TxnWireDicts}
    \cup
    {[op |-> "init", d |-> <<>>, user |-> u, status |-> st, date_time |-> dt] :
         u \in {None, PyInt(42)}, st \in Statuses, dt \in DateTimes}

\* Transaction.from_dict(input_dict, client), with the dict of `t_call`
TxnFromDict ==
    /\ t_call.op = "from_dict"
    /\ txn.kind = "none"
    /\ txn' = Transaction_from_dict(t_call.d)
    /\ UNCHANGED <<t_call, paid_read>>

\* Transaction(id, client, user=..., status=..., date_time=...), with the
\* arguments of `t_call`; party and amount are left to their default, None.
TxnInit ==
    /\ t_call.op = "init"
    /\ txn.kind = "none"
    /\ txn' = Transaction_init(PyInt(TestTransactionId), t_call.user, None, None,
                               t_call.status, t_call.date_time)
    /\ UNCHANGED <<t_call, paid_read>>

\* transaction.paid, read once on the Transaction that was built
ReadPaid ==
    /\ txn.kind = "return"
    /\ paid_read.kind = "none"
    /\ paid_read' = paid(txn.t)
    /\ UNCHANGED <<t_call, txn>>

-----------------------------------------------------------------------------
(* JSON values and the dicts of Python *)

\* A dict whose order matters (a payload, a decoded JSON object): the sequence
\* of its (key, value) items, the keys being strings.
PyDict(items) == [kind |-> "dict", i |-> 0, s |-> items]

\* A Transaction object held as a value.
PyTransaction(t) == [kind |-> "transaction", i |-> 0, s |-> <<>>, t |-> t]

\* key in d
DictHas(items, key) == \E j \in 1..Len(items) : items[j][1] = key

\* d[key], where key in d
DictGet(items, key) ==
    items[CHOOSE j \in 1..Len(items) :
              items[j][1] = key /\ \A m \in (j + 1)..Len(items) : items[m][1] # key][2]

SubOk(v)  == [ok |-> TRUE,  v |-> v,    exc |-> ""]
SubErr(e) == [ok |-> FALSE, v |-> None, exc |-> e]

\* v[key] for a str key: TypeError unless v is a dict, KeyError for a missing key.
Subscript(v, key) ==
    IF v.kind # "dict" THEN SubErr("TypeError")
    ELSE IF ~DictHas(v.s, key) THEN SubErr("KeyError")
    ELSE SubOk(DictGet(v.s, key))

\* bool(v)
Truthy(v) ==
    IF v.kind = "none" THEN FALSE
    ELSE IF v.kind \in {"bool", "int"} THEN v.i # 0
    ELSE IF v.kind \in {"str", "dict"} THEN Len(v.s) > 0
    ELSE TRUE

\* The keys of the dicts that travel: those that User.from_dict and
\* Transaction.from_dict read, those of the response envelope and those of the
\* payloads.
KeyChars ==
    [id          |-> S_id,
     name        |-> S_name,
     email       |-> S_email,
     growid      |-> S_growid,
     balance     |-> S_balance,
     discordID   |-> S_discordID,
     user        |-> <<117, 115, 101, 114>>,
     party       |-> <<112, 97, 114, 116, 121>>,
     amount      |-> <<97, 109, 111, 117, 110, 116>>,
     status      |-> <<115, 116, 97, 116, 117, 115>>,
     date_time   |-> <<100, 97, 116, 101, 95, 116, 105, 109, 101>>,
     success     |-> <<115, 117, 99, 99, 101, 115, 115>>,
     error       |-> <<101, 114, 114, 111, 114>>,
     secret      |-> <<115, 101, 99, 114, 101, 116>>,
     token       |-> <<116, 111, 107, 101, 110>>,
     notes       |-> <<110, 111, 116, 101, 115>>,
     scopes      |-> S_scopes,
     transaction |-> S_transaction]

\* The dict as the decoders look it up: by the name of the key.
AsRecord(items) ==
    [k \in {n \in DOMAIN KeyChars : DictHas(items, KeyChars[n])} |->
        DictGet(items, KeyChars[k])]

RECURSIVE ReprOf(_)
\* repr(v) for None, a bool, an int, a str without quotes, backslashes or control
\* characters, and a dict of such values.
ReprOf(v) ==
    IF v.kind = "none" THEN <<78, 111, 110, 101>>                     \* 'None'
    ELSE IF v.kind = "bool" THEN (IF v.i # 0 THEN <<84, 114, 117, 101>>           \* 'True'
                                            ELSE <<70, 97, 108, 115, 101>>)      \* 'False'
    ELSE IF v.kind = "int" THEN StrOfInt(v.i)
    ELSE IF v.kind = "str" THEN <<39>> \o v.s \o <<39>>
    ELSE <<123>> \o
         Join(<<44, 32>>, [j \in 1..Len(v.s) |->
                              <<39>> \o v.s[j][1] \o <<39, 58, 32>> \o ReprOf(v.s[j][2])])
         \o <<125>>

\* str(v): a str is itself, any other value is its repr.
StrOfValue(v) == IF v.kind = "str" THEN v.s ELSE ReprOf(v)

-----------------------------------------------------------------------------
(* The POST operations of Auth and Pay: wrapper.py, and pay.get_balance of __init__.py *)

\* client.py: Client.api_url; wrapper.py: Auth.api_url and Pay.api_url
S_api_url    == <<104, 116, 116, 112, 115, 58, 47, 47, 97, 112, 105, 46, 103, 114, 111,
                  119, 115, 116, 111, 99, 107, 115, 46, 120, 121, 122, 47, 118, 49>>
                                                    \* 'https://api.growstocks.xyz/v1'
Auth_api_url == Format(<<123, 48, 125, 47, 97, 117, 116, 104>>, S_api_url).s  \* '{0}/auth'
Pay_api_url  == Format(<<123, 48, 125, 47, 112, 97, 121>>, S_api_url).s       \* '{0}/pay'

Operations == {"fetch_user", "create_transaction", "fetch_transaction", "send",
               "get_balance"}

\* The first argument of session.post in each operation.
Endpoint(op) ==
    IF op = "fetch_user"
    THEN Format(<<123, 48, 125, 47, 117, 115, 101, 114>>, Auth_api_url).s      \* '{0}/user'
    ELSE IF op \in {"create_transaction", "fetch_transaction"}
    THEN Format(<<123, 48, 125, 47, 116, 114, 97, 110, 115, 97, 99, 116, 105, 111, 110,
                  47, 99, 114, 101, 97, 116, 101>>, Pay_api_url).s  \* '{0}/transaction/create'
    ELSE IF op = "send"
    THEN Format(<<123, 48, 125, 47, 115, 101, 110, 100>>, Pay_api_url).s       \* '{0}/send'
    ELSE Format(<<123, 48, 125, 47, 98, 97, 108, 97, 110, 99, 101>>, Pay_api_url).s
                                                                            \* '{0}/balance'

\* A plausible slip: send drops the notes that are None, as create_transaction does.
Payload_SendDropsNotes(op, cl, a) ==
    LET secret == <<KeyChars.secret, PyStr(cl.secret)>> IN
    IF op = "fetch_user"
    THEN LET scopes_ == IF a.scopes.given THEN a.scopes ELSE cl.default_scopes
         IN  << secret, <<KeyChars.token, a.token>> >> \o
             (IF scopes_.given
              THEN << <<KeyChars.scopes, PyStr(StrOfScopes(scopes_))>> >> ELSE <<>>)
    ELSE IF op = "create_transaction"
    THEN << secret, <<KeyChars.user, PyInt(IntOf(a.user.id))>>,
            <<KeyChars.amount, PyInt(IntOf(a.amount))>> >> \o
         (IF a.notes.kind # "none"
          THEN << <<KeyChars.notes, PyStr(StrOf(a.notes))>> >> ELSE <<>>)
    ELSE IF op = "fetch_transaction"
    THEN << secret, <<KeyChars.transaction, a.transaction.id>> >>
    ELSE IF op = "send"
    THEN << secret, <<KeyChars.party, a.user.id>>, <<KeyChars.amount, a.amount>> >> \o
         (IF a.notes.kind # "none" THEN << <<KeyChars.notes, a.notes>> >> ELSE <<>>)
    ELSE << secret >>

\* A plausible slip: fetch_user serializes the scopes argument and never the default.
Payload_ArgumentScopesOnly(op, cl, a) ==
    LET secret == <<KeyChars.secret, PyStr(cl.secret)>> IN
    IF op = "fetch_user"
    THEN LET scopes_ == a.scopes
         IN  << secret, <<KeyChars.token, a.token>> >> \o
             (IF scopes_.given
              THEN << <<KeyChars.scopes, PyStr(StrOfScopes(scopes_))>> >> ELSE <<>>)
    ELSE IF op = "create_transaction"
    THEN << secret, <<KeyChars.user, PyInt(IntOf(a.user.id))>>,
            <<KeyChars.amount, PyInt(IntOf(a.amount))>> >> \o
         (IF a.notes.kind # "none"
          THEN << <<KeyChars.notes, PyStr(StrOf(a.notes))>> >> ELSE <<>>)
    ELSE IF op = "fetch_transaction"
    THEN << secret, <<KeyChars.transaction, a.transaction.id>> >>
    ELSE IF op = "send"
    THEN << secret, <<KeyChars.party, a.user.id>>, <<KeyChars.amount, a.amount>>,
            <<KeyChars.notes, a.notes>> >>
    ELSE << secret >>

\* The payload each operation builds, as the items of the dict in their order;
\* cl is self.client, a holds the arguments of the call.
Payload(op, cl, a) ==
    LET secret == <<KeyChars.secret, PyStr(cl.secret)>> IN
    IF op = "fetch_user"
    THEN LET scopes_ == IF a.scopes.given THEN a.scopes ELSE cl.default_scopes
         IN  << secret, <<KeyChars.token, a.token>> >> \o
             (IF scopes_.given
              THEN << <<KeyChars.scopes, PyStr(StrOfScopes(scopes_))>> >> ELSE <<>>)
    ELSE IF op = "create_transaction"
    THEN << secret, <<KeyChars.user, PyInt(IntOf(a.user.id))>>,
            <<KeyChars.amount, PyInt(IntOf(a.amount))>> >> \o
         (IF a.notes.kind # "none"
          THEN << <<KeyChars.notes, PyStr(StrOf(a.notes))>> >> ELSE <<>>)
    ELSE IF op = "fetch_transaction"
    THEN << secret, <<KeyChars.transaction, a.transaction.id>> >>
    ELSE IF op = "send"
    THEN << secret, <<KeyChars.party, a.user.id>>, <<KeyChars.amount, a.amount>>,
            <<KeyChars.notes, a.notes>> >>
    ELSE << secret >>

\* A plausible slip: the request is issued again.
session_post_Retry(log, url, data) ==
    Append(Append(log, [url |-> url, data |-> data]), [url |-> url, data |-> data])

\* session.post(url, data=payload): one HTTP request, recorded in the log of the
\* requests the transport has issued.
session_post(log, url, data) == Append(log, [url |-> url, data |-> data])

\* What becomes of the request: no answer at all (the transport fails), a body
\* that is not JSON, a body that is the JSON value v, or, for a coroutine, an
\* answer during whose reading the task that awaits the coroutine is cancelled.
Unreachable == [kind |-> "error", text |-> <<>>, v |-> None]
Cancelled   == [kind |-> "cancelled", text |-> <<>>, v |-> None]
TextBody(x) == [kind |-> "text",  text |-> x,    v |-> None]
JsonBody(v) == [kind |-> "json",  text |-> <<>>, v |-> v]

\* The errors of the transports are their own: requests and aiohttp are two
\* libraries, each with its classes.  The first is raised when no response
\* arrives, the second by json() on a body that is not JSON.
transport_error(session) ==
    IF session = "requests" THEN "requests.ConnectionError" ELSE "aiohttp.ClientConnectionError"
json_error(session) ==
    IF session = "requests" THEN "requests.JSONDecodeError" ELSE "aiohttp.ContentTypeError"

\* The outcome of a call: a returned value or a raised exception with its message.
Returned(v)    == [kind |-> "return", exc |-> "", msg |-> <<>>, v |-> v]
Raised(e, msg) == [kind |-> "raise",  exc |-> e,  msg |-> msg,  v |-> None]
NoOutcome      == [kind |-> "none",   exc |-> "", msg |-> <<>>, v |-> None]

\* 'Request to api was unsuccessful: {0}'
S_unsuccessful == <<82, 101, 113, 117, 101, 115, 116, 32, 116, 111, 32, 97, 112, 105, 32,
                    119, 97, 115, 32, 117, 110, 115, 117, 99, 99, 101, 115, 115, 102, 117,
                    108, 58, 32, 123, 48, 125>>

\* raise RequestFailure('Request to api was unsuccessful: {0}'.format(arg))
RequestFailure(arg) == Raised("RequestFailure", Format(S_unsuccessful, StrOfValue(arg)).s)

\* A plausible slip: only a success of None is a failure.
CheckSuccess_NoneOnly(j) ==
    LET r == Subscript(j, KeyChars.success) IN
    IF ~r.ok THEN Raised(r.exc, <<>>)
    ELSE IF r.v.kind = "none" THEN RequestFailure(j)
    ELSE NoOutcome

\* if not rtrn_json['success']: raise RequestFailure(...format(rtrn_json))
\* NoOutcome when the check lets the operation go on.
CheckSuccess(j) ==
    LET r == Subscript(j, KeyChars.success) IN
    IF ~r.ok THEN Raised(r.exc, <<>>)
    ELSE IF ~Truthy(r.v) THEN RequestFailure(j)
    ELSE NoOutcome

\* User.from_dict(rtrn_json['user']): a value that is no dict has no get().
user_of(j) ==
    LET r == Subscript(j, KeyChars.user) IN
    IF ~r.ok THEN Raised(r.exc, <<>>)
    ELSE IF r.v.kind # "dict" THEN Raised("AttributeError", <<>>)
    ELSE LET d == from_dict(AsRecord(r.v.s)) IN
         IF d.kind = "return" THEN Returned(PyUser(d.user)) ELSE Raised(d.exc, <<>>)

\* Transaction(rtrn_json['transaction'], client=self.client)
new_transaction_of(j) ==
    LET r == Subscript(j, KeyChars.transaction) IN
    IF ~r.ok THEN Raised(r.exc, <<>>)
    ELSE Returned(PyTransaction(Transaction_init(r.v, None, None, None, None, None).t))

\* A plausible slip: the fetched transaction is built in the partial form, from
\* the id alone.
fetched_transaction_of_Partial(j) ==
    LET r == Subscript(j, KeyChars.transaction) IN
    IF ~r.ok THEN Raised(r.exc, <<>>)
    ELSE IF r.v.kind # "dict" THEN Raised("TypeError", <<>>)
    ELSE IF ~DictHas(r.v.s, KeyChars.id) THEN Raised("KeyError", <<>>)
    ELSE Returned(PyTransaction(
             Transaction_init(DictGet(r.v.s, KeyChars.id), None, None, None, None, None).t))

\* Transaction.from_dict(rtrn_json['transaction'], client=self.client): a value
\* that is no dict cannot be subscripted with a str.
fetched_transaction_of(j) ==
    LET r == Subscript(j, KeyChars.transaction) IN
    IF ~r.ok THEN Raised(r.exc, <<>>)
    ELSE IF r.v.kind # "dict" THEN Raised("TypeError", <<>>)
    ELSE LET d == Transaction_from_dict(AsRecord(r.v.s)) IN
         IF d.kind = "return" THEN Returned(PyTransaction(d.t)) ELSE Raised(d.exc, <<>>)

\* int(rtrn_json['balance'])
balance_of(j) ==
    LET r == Subscript(j, KeyChars.balance) IN
    IF ~r.ok THEN Raised(r.exc, <<>>)
    ELSE IF r.v.kind = "bool" THEN Returned(PyInt(r.v.i))
    ELSE IF r.v.kind \notin {"int", "str"} THEN Raised("TypeError", <<>>)
    ELSE IF ~IntOk(r.v) THEN Raised("ValueError", <<>>)
    ELSE Returned(PyInt(IntOf(r.v)))

\* The else branch of each operation, from the success check on: rtrn_json is
\* what resp.json() returned.
sync_tail(op, rtrn_json) ==
    LET c == CheckSuccess(rtrn_json) IN
    IF c.kind = "raise" THEN c
    ELSE IF op = "fetch_user" THEN user_of(rtrn_json)
    ELSE IF op = "create_transaction" THEN new_transaction_of(rtrn_json)
    ELSE IF op = "fetch_transaction" THEN fetched_transaction_of(rtrn_json)
    ELSE IF op = "send" THEN Returned(rtrn_json)
    ELSE balance_of(rtrn_json)

\* ret_coro of each operation, from the success check on: rtrn_json_ is what
\* `await resp_val.json()` returned.
coro_tail(op, rtrn_json_) ==
    LET c == CheckSuccess(rtrn_json_) IN
    IF c.kind = "raise" THEN c
    ELSE IF op = "fetch_user" THEN user_of(rtrn_json_)
    ELSE IF op = "create_transaction" THEN new_transaction_of(rtrn_json_)
    ELSE IF op = "fetch_transaction" THEN fetched_transaction_of(rtrn_json_)
    ELSE IF op = "send" THEN Returned(rtrn_json_)
    ELSE balance_of(rtrn_json_)

\* pay.get_balance of __init__.py, after resp.json():
\*     if not rtrn_json['success']: raise RuntimeError(...format(rtrn_json))
\*     return rtrn_json['balance']
legacy_get_balance_tail(rtrn_json) ==
    LET s == Subscript(rtrn_json, KeyChars.success)
        r == Subscript(rtrn_json, KeyChars.balance)
    IN  IF ~s.ok THEN Raised(s.exc, <<>>)
        ELSE IF ~Truthy(s.v)
        THEN Raised("RuntimeError", Format(S_unsuccessful, StrOfValue(rtrn_json)).s)
        ELSE IF ~r.ok THEN Raised(r.exc, <<>>)
        ELSE Returned(r.v)

\* pay.get_balance of __init__.py on its requests session: the errors of
\* session.post and of resp.json() are not caught.
legacy_get_balance(answer) ==
    IF answer.kind = "error" THEN Raised(transport_error("requests"), <<>>)
    ELSE IF answer.kind = "text" THEN Raised(json_error("requests"), <<>>)
    ELSE legacy_get_balance_tail(answer.v)

\* An operation of wrapper.py on a requests session, after session.post(...):
\* the response has arrived or the transport has failed.  Only fetch_user wraps
\* resp.json() in try/except and raises RequestFailure with resp.text.
blocking(op, answer) ==
    IF answer.kind = "error" THEN Raised(transport_error("requests"), <<>>)
    ELSE IF answer.kind = "text"
    THEN IF op = "fetch_user" THEN RequestFailure(PyStr(answer.text))
         ELSE Raised(json_error("requests"), <<>>)
    ELSE sync_tail(op, answer.v)

\* The call of an operation.  On a requests session post() sends the request
\* and the operation runs to its end; on an aiohttp session post() returns an
\* awaitable that has sent nothing yet, and the operation returns ret_coro(resp).
\* The payload is built from the client as it is when the call is made.
Call(op) ==
    /\ pc = "idle"
    /\ req.op = op
    /\ resp' = [url |-> Endpoint(op), data |-> Payload(op, req.client, req)]
    /\ IF req.client.session = "requests"
       THEN /\ sent' = session_post(sent, Endpoint(op), Payload(op, req.client, req))
            /\ outcome' = IF req.client.legacy THEN legacy_get_balance(server)
                          ELSE blocking(op, server)
            /\ pc' = "done"
       ELSE /\ pc' = "coro"
            /\ UNCHANGED <<sent, outcome>>
    /\ UNCHANGED <<req, server, awaited>>

\* A plausible slip: fetch_transaction fills in the transaction it was given
\* (as a refresh would) next to returning the decoded one.
FetchTransaction_InPlace ==
    /\ pc = "idle"
    /\ req.op = "fetch_transaction"
    /\ resp' = [url |-> Endpoint("fetch_transaction"),
                data |-> Payload("fetch_transaction", req.client, req)]
    /\ IF req.client.session = "requests"
       THEN /\ sent' = session_post(sent, Endpoint("fetch_transaction"),
                                    Payload("fetch_transaction", req.client, req))
            /\ outcome' = blocking("fetch_transaction", server)
            /\ req' = IF outcome'.kind = "return"
                      THEN [req EXCEPT !.transaction = outcome'.v.t] ELSE req
            /\ pc' = "done"
       ELSE /\ pc' = "coro"
            /\ UNCHANGED <<req, sent, outcome>>
    /\ UNCHANGED <<server, awaited>>

FetchUser         == Call("fetch_user")
CreateTransaction == Call("create_transaction")
FetchTransaction  == Call("fetch_transaction")
Send              == Call("send")
GetBalance        == Call("get_balance")

\* Transaction.fetch_info: return self._client.pay.fetch_transaction(self);
\* req.client is the _client of the transaction.
FetchInfo ==
    /\ pc = "idle"
    /\ req.op = "fetch_info"
    /\ req' = [req EXCEPT !.op = "fetch_transaction"]
    /\ UNCHANGED <<server, sent, pc, outcome, resp, awaited>>

\* client.default_scopes = value, before the call or while its coroutine is
\* not yet awaited (the docstring: "May be defined after initialization").
SetDefaultScopes ==
    /\ pc \in {"idle", "coro"}
    /\ req.op = "fetch_user"
    /\ req.client.default_scopes = SomeScopes(Scopes_init(TRUE, FALSE, FALSE, FALSE))
    /\ \E value \in {NoScopes, SomeScopes(Scopes_init(TRUE, FALSE, TRUE, TRUE))} :
          req' = [req EXCEPT !.client.default_scopes = value]
    /\ UNCHANGED <<server, sent, pc, outcome, resp, awaited>>

\* A plausible slip: the coroutine pauses before it sends the request.
AwaitResponse_WithPause ==
    /\ pc = "coro"
    /\ sent' = session_post(sent, resp.url, resp.data)
    /\ awaited' = Append(Append(awaited, "asyncio.sleep()"), "resp_")
    /\ IF server.kind = "error"
       THEN outcome' = Raised(transport_error("aiohttp"), <<>>) /\ pc' = "done"
       ELSE pc' = "response" /\ UNCHANGED outcome
    /\ UNCHANGED <<req, server, resp>>

\* ret_coro: resp_val = await resp_ -- the request is sent now.
AwaitResponse ==
    /\ pc = "coro"
    /\ sent' = session_post(sent, resp.url, resp.data)
    /\ awaited' = Append(awaited, "resp_")
    /\ IF server.kind = "error"
       THEN outcome' = Raised(transport_error("aiohttp"), <<>>) /\ pc' = "done"
       ELSE pc' = "response" /\ UNCHANGED outcome
    /\ UNCHANGED <<req, server, resp>>

\* ret_coro: rtrn_json_ = await resp_val.json(), and what follows it.  In
\* fetch_user whatever this await raises, a failure of json() or the
\* CancelledError of a cancelled task, enters the bare except clause; in the
\* other operations it leaves the coroutine.
AwaitJson ==
    /\ pc = "response"
    /\ awaited' = Append(awaited, "resp_val.json()")
    /\ IF server.kind \in {"text", "cancelled"}
       THEN IF req.op = "fetch_user"
            THEN pc' = "except" /\ UNCHANGED outcome
            ELSE /\ outcome' = Raised(IF server.kind = "cancelled"
                                          THEN "asyncio.CancelledError"
                                          ELSE json_error("aiohttp"), <<>>)
                 /\ pc' = "done"
       ELSE outcome' = coro_tail(req.op, server.v) /\ pc' = "done"
    /\ UNCHANGED <<req, server, sent, resp>>

\* ret_coro of fetch_user, in the except clause:
\* raise RequestFailure(...format(await resp_val.text()))
\* After a cancelled read text() returns what it has or raises the error of the
\* transport; the exception caught by the clause is not raised again.
AwaitText ==
    /\ pc = "except"
    /\ awaited' = Append(awaited, "resp_val.text()")
    /\ \/ outcome' = RequestFailure(PyStr(server.text))
       \/ server.kind = "cancelled" /\ outcome' = Raised(transport_error("aiohttp"), <<>>)
    /\ pc' = "done"
    /\ UNCHANGED <<req, server, sent, resp>>

\* The calls tried: each operation with typed arguments, on the client of the
\* test fixture with a requests session and with an aiohttp session, and
\* get_balance on the client of __init__.py.
TestUser        == User_init(FALSE, PyInt(42), None, None, None, None, None)
TestTransaction == Transaction_init(PyInt(TestTransactionId), None, None, None, None, None).t
PostClients ==
    {Client_init(FALSE, TestClientId, TestSecret,
                 SomeScopes(Scopes_init(TRUE, FALSE, FALSE, FALSE)), NoDict),
     AioClient_init(TestClientId, TestSecret,
                    SomeScopes(Scopes_init(TRUE, FALSE, FALSE, FALSE)), NoDict)}
Request(op, cl, scopes_, notes) ==
    [op |-> op, client |-> cl, token |-> PyStr(<<116, 111, 107>>),        \* 'tok'
     scopes |-> scopes_, user |-> TestUser, amount |-> PyInt(5), notes |-> notes,
     transaction |-> TestTransaction]
NoRequest == Request("none", Client_init(FALSE, TestClientId, TestSecret,
                                         SomeScopes(Scopes_init(TRUE, FALSE, FALSE, FALSE)),
                                         NoDict), NoScopes, None)
Requests ==
    {Request("fetch_user", cl, s, None) :
        cl \in PostClients, s \in {NoScopes, SomeScopes(Scopes_init(TRUE, TRUE, TRUE, FALSE))}}
    \cup {Request(op, cl, NoScopes, n) :
            op \in {"create_transaction", "send"}, cl \in PostClients,
            n \in {None, PyStr(<<104, 105>>)}}                            \* 'hi'
    \cup {Request("send", cl, NoScopes, PyStr(<<>>)) : cl \in PostClients}
    \cup {Request(op, cl, NoScopes, None) :
            op \in {"fetch_transaction", "fetch_info", "get_balance"}, cl \in PostClients}
    \cup {Request("get_balance",
                  Client_init(TRUE, TestClientId, TestSecret,
                              SomeScopes(Scopes_init(TRUE, FALSE, FALSE, FALSE)), NoDict),
                  NoScopes, None)}

\* The answers tried.  An envelope is a `success` item, or none, followed by
\* the items an operation reads.
SuccessItems ==
    {<<>>,
     << <<KeyChars.success, PyBool(TRUE)>> >>,
     << <<KeyChars.success, PyBool(FALSE)>> >>,
     << <<KeyChars.success, None>> >>,
     << <<KeyChars.success, PyStr(<<110, 111>>)>> >>}                     \* 'no'
S_valid_date   == <<50, 48, 50, 49, 45, 48, 53, 45, 48, 49, 32, 48, 49, 58, 48, 50, 58,
                    48, 51>>                                    \* '2021-05-01 01:02:03'
WireTransaction(status, date_time) ==
    PyDict(<< <<KeyChars.id, PyInt(TestTransactionId)>>, <<KeyChars.user, PyInt(42)>>,
              <<KeyChars.party, PyInt(7)>>, <<KeyChars.amount, PyInt(5)>>,
              <<KeyChars.status, status>>, <<KeyChars.date_time, date_time>> >>)
ResultItems ==
    {<<>>,
     << <<KeyChars.error, PyStr(<<98, 97, 100, 32, 116, 111, 107, 101, 110>>)>> >>,
                                                                          \* 'bad token'
     << <<KeyChars.user, PyDict(<< <<KeyChars.id, PyInt(1916)>>,
                                   <<KeyChars.name, PyStr(<<66, 111, 98>>)>>,
                                   <<KeyChars.discordID, PyStr(<<52, 50>>)>> >>)>>,
        <<KeyChars.transaction, PyInt(TestTransactionId)>>,
        <<KeyChars.balance, PyStr(<<52, 50>>)>> >>,                       \* '42'
     << <<KeyChars.user, PyDict(<< <<KeyChars.name, PyStr(<<66, 111, 98>>)>> >>)>>,
        <<KeyChars.transaction, WireTransaction(PyStr(<<49>>), PyStr(S_valid_date))>>,
        <<KeyChars.balance, PyInt(42)>> >>,
     << <<KeyChars.user, None>>,
        <<KeyChars.transaction, WireTransaction(PyInt(0), PyStr(<<120>>))>>,
        <<KeyChars.balance, PyStr(<<120>>)>> >>,                          \* 'x'
     << <<KeyChars.user, PyDict(<< <<KeyChars.id, PyInt(1916)>>,
                                   <<KeyChars.discordID, PyStr(<<120, 49>>)>> >>)>>,
        <<KeyChars.transaction, PyDict(<< <<KeyChars.id, PyInt(TestTransactionId)>> >>)>>,
        <<KeyChars.balance, None>> >>}
Answers ==
    {Unreachable, TextBody(<<60, 104, 116, 109, 108, 62>>), TextBody(<<>>),   \* '<html>', ''
     JsonBody(None)}
    \cup {JsonBody(PyDict(s \o r)) : s \in SuccessItems, r \in ResultItems}

\* Nothing given to session.post yet.
NoResp == [url |-> <<>>, data |-> <<>>]

PostIdle ==
    /\ req = NoRequest
    /\ server = Unreachable
    /\ sent = <<>>
    /\ pc = "idle"
    /\ outcome = NoOutcome
    /\ resp = NoResp
    /\ awaited = <<>>

-----------------------------------------------------------------------------
(* Two clients and the default of default_scopes: client.py *)

\* The Scopes objects.  "default" is the Scopes() of the parameter
\* `default_scopes: Scopes = Scopes()`: Python evaluates a default when the def
\* statement runs, once, and binds that one object at every call that leaves
\* the argument out.  "for_a" and "for_b" are the Scopes() that the caller
\* builds and passes as default_scopes.
ScopesObjects == {"default", "for_a", "for_b"}
ClientNames   == {"a", "b"}
NotBuilt      == [built |-> FALSE, explicit |-> FALSE, default_scopes |-> "default"]

\* self.default_scopes = default_scopes, for Client(id, secret) and for
\* Client(id, secret, default_scopes=Scopes()).
DefaultScopesOf(c, explicit) ==
    IF explicit THEN (IF c = "a" THEN "for_a" ELSE "for_b") ELSE "default"

\* Client.__init__ of client c.
ClientConstruct ==
    \E c \in ClientNames, explicit \in BOOLEAN :
        /\ ~clients[c].built
        /\ clients' = [clients EXCEPT ![c] = [built |-> TRUE, explicit |-> explicit,
                                              default_scopes |-> DefaultScopesOf(c, explicit)]]
        /\ UNCHANGED <<heap, seen>>

\* a.default_scopes.<flag> = v: an attribute assignment on the object that
\* a.default_scopes refers to.
DefaultScopesSetAttr ==
    \E f \in ScopeAttrs, v \in BOOLEAN :
        /\ clients["a"].built
        /\ heap' = [heap EXCEPT ![clients["a"].default_scopes][f] = v]
        /\ UNCHANGED <<clients, seen>>

\* Client "b" as the operations read it.
ClientB ==
    Client_init(FALSE, TestClientId, TestSecret,
                SomeScopes(heap[clients["b"].default_scopes]), NoDict)
NothingSeen == [op |-> "none", url |-> <<>>, data |-> <<>>]

\* b.auth.make_url('r'), no scopes given.
OtherMakeUrl ==
    /\ clients["b"].built
    /\ seen' = [op |-> "make_url", url |-> make_url(ClientB, PyStr(<<114>>), NoScopes).url,
                data |-> <<>>]
    /\ UNCHANGED <<heap, clients>>

\* b.auth.fetch_user('tok'), no scopes given: the payload it posts.  What
\* follows the post is in the POST operations above.
OtherFetchUser ==
    /\ clients["b"].built
    /\ seen' = [op |-> "fetch_user", url |-> <<>>,
                data |-> Payload("fetch_user", ClientB,
                                 Request("fetch_user", ClientB, NoScopes, None))]
    /\ UNCHANGED <<heap, clients>>

DefaultsIdle ==
    /\ heap = [o \in ScopesObjects |-> Scopes_init(TRUE, FALSE, FALSE, FALSE)]
    /\ clients = [c \in ClientNames |-> NotBuilt]
    /\ seen = NothingSeen

-----------------------------------------------------------------------------
(* Specifications *)

ScopesIdle ==
    /\ sc_args = [profile |-> TRUE, email |-> FALSE, balance |-> FALSE, discord |-> FALSE]
    /\ scopes = Scopes_init(TRUE, FALSE, FALSE, FALSE)
    /\ sc_op = "init"
    /\ sc_list = <<>>
    /\ sc_str = <<>>

UrlIdle ==
    /\ client = Client_init(FALSE, TestClientId, TestSecret,
                            SomeScopes(Scopes_init(TRUE, FALSE, FALSE, FALSE)), NoDict)
    /\ call = NoCall
    /\ result = NoResult

\* A User(1916) built directly, on which nothing has iterated.
UserBuilt ==
    /\ user = User_init(FALSE, PyInt(1916), None, None, None, None, None)
    /\ decoded = NoDecode
    /\ user_n = [set |-> FALSE, v |-> 0]
    /\ it_state = "idle"
    /\ out = <<>>
    /\ encoded = NoDict
    /\ redecoded = NoDecode

IterIdle ==
    /\ it2_state = "idle"
    /\ out2 = <<>>

UserIdle ==
    /\ wire = [id |-> PyInt(1916)]
    /\ wire_legacy = FALSE
    /\ UserBuilt

TxnIdle ==
    /\ t_call = NoTxnCall
    /\ txn = NoTxn
    /\ paid_read = NoPaid

\* Scopes: a Scopes() built with the defaults, then any constructions,
\* attribute assignments and serializations.
InitScopes == ScopesIdle /\ UrlIdle /\ UserIdle /\ TxnIdle /\ PostIdle /\ DefaultsIdle /\ IterIdle
NextScopes ==
    \/ ScopesConstruct /\ UNCHANGED <<urlVars, userVars, txnVars, postVars, defaultsVars, iterVars>>
    \/ ScopesSetAttr /\ UNCHANGED <<urlVars, userVars, txnVars, postVars, defaultsVars, iterVars>>
    \/ ScopesSerialize /\ UNCHANGED <<urlVars, userVars, txnVars, postVars, defaultsVars, iterVars>>
SpecScopes == InitScopes /\ [][NextScopes]_vars

\* URL builders: a client as some Client(...) call built it and the arguments of
\* a call, then the call of make_url or of make_payment_url.
InitUrl ==
    /\ ScopesIdle /\ UserIdle /\ TxnIdle /\ PostIdle /\ DefaultsIdle /\ IterIdle
    /\ \E legacy \in BOOLEAN, ds \in DefaultScopesArgs, dr \in RedirectArgs :
          client = Client_init(legacy, TestClientId, TestSecret, ds, dr)
    /\ call \in Calls
    /\ result = NoResult
NextUrl ==
    \/ MakeUrl /\ UNCHANGED <<scopesVars, userVars, txnVars, postVars, defaultsVars, iterVars>>
    \/ MakePaymentUrl /\ UNCHANGED <<scopesVars, userVars, txnVars, postVars, defaultsVars, iterVars>>
SpecUrl == InitUrl /\ [][NextUrl]_vars

\* User: a User(1916) and a wire dict, then its decoding and any iterations.
InitUser ==
    /\ ScopesIdle /\ UrlIdle /\ TxnIdle /\ PostIdle /\ DefaultsIdle /\ IterIdle
    /\ wire \in WireDicts
    /\ wire_legacy \in BOOLEAN
    /\ UserBuilt
NextUser ==
    \/ FromDict /\ UNCHANGED <<scopesVars, urlVars, txnVars, postVars, defaultsVars, iterVars>>
    \/ Iter /\ UNCHANGED <<scopesVars, urlVars, txnVars, postVars, defaultsVars, iterVars>>
    \/ Next_ /\ UNCHANGED <<scopesVars, urlVars, txnVars, postVars, defaultsVars, iterVars>>
    \/ AsDict /\ UNCHANGED <<scopesVars, urlVars, txnVars, postVars, defaultsVars, iterVars>>
    \/ FromEncoded /\ UNCHANGED <<scopesVars, urlVars, txnVars, postVars, defaultsVars, iterVars>>
SpecUser == InitUser /\ [][NextUser]_vars

\* Transaction: the arguments of a call that builds a Transaction, then the
\* call and a read of paid.
InitTxn ==
    /\ ScopesIdle /\ UrlIdle /\ UserIdle /\ PostIdle /\ DefaultsIdle /\ IterIdle
    /\ t_call \in TxnCalls
    /\ txn = NoTxn
    /\ paid_read = NoPaid
NextTxn ==
    \/ TxnFromDict /\ UNCHANGED <<scopesVars, urlVars, userVars, postVars, defaultsVars, iterVars>>
    \/ TxnInit /\ UNCHANGED <<scopesVars, urlVars, userVars, postVars, defaultsVars, iterVars>>
    \/ ReadPaid /\ UNCHANGED <<scopesVars, urlVars, userVars, postVars, defaultsVars, iterVars>>
SpecTxn == InitTxn /\ [][NextTxn]_vars

\* POST operations: a call and the answer the server will give, then the call
\* and, for a coroutine, its awaits.
InitPost ==
    /\ ScopesIdle /\ UrlIdle /\ UserIdle /\ TxnIdle /\ DefaultsIdle /\ IterIdle
    /\ req \in Requests
    /\ server \in Answers \cup (IF req.client.session = "aiohttp" THEN {Cancelled} ELSE {})
    /\ sent = <<>>
    /\ pc = "idle"
    /\ outcome = NoOutcome
    /\ resp = NoResp
    /\ awaited = <<>>
NextPost ==
    \/ FetchUser /\ UNCHANGED <<scopesVars, urlVars, userVars, txnVars, defaultsVars, iterVars>>
    \/ CreateTransaction /\ UNCHANGED <<scopesVars, urlVars, userVars, txnVars, defaultsVars, iterVars>>
    \/ FetchTransaction /\ UNCHANGED <<scopesVars, urlVars, userVars, txnVars, defaultsVars, iterVars>>
    \/ Send /\ UNCHANGED <<scopesVars, urlVars, userVars, txnVars, defaultsVars, iterVars>>
    \/ GetBalance /\ UNCHANGED <<scopesVars, urlVars, userVars, txnVars, defaultsVars, iterVars>>
    \/ FetchInfo /\ UNCHANGED <<scopesVars, urlVars, userVars, txnVars, defaultsVars, iterVars>>
    \/ SetDefaultScopes /\ UNCHANGED <<scopesVars, urlVars, userVars, txnVars, defaultsVars, iterVars>>
    \/ AwaitResponse /\ UNCHANGED <<scopesVars, urlVars, userVars, txnVars, defaultsVars, iterVars>>
    \/ AwaitJson /\ UNCHANGED <<scopesVars, urlVars, userVars, txnVars, defaultsVars, iterVars>>
    \/ AwaitText /\ UNCHANGED <<scopesVars, urlVars, userVars, txnVars, defaultsVars, iterVars>>
SpecPost == InitPost /\ [][NextPost]_vars

\* Default scopes: two clients are built, each with or without a default_scopes
\* argument; flags are assigned through the default_scopes of "a", and "b"
\* serializes its scopes.
InitDefaults ==
    /\ ScopesIdle /\ UrlIdle /\ UserIdle /\ TxnIdle /\ PostIdle /\ IterIdle
    /\ DefaultsIdle
NextDefaults ==
    \/ ClientConstruct /\ UNCHANGED <<scopesVars, urlVars, userVars, txnVars, postVars, iterVars>>
    \/ DefaultScopesSetAttr /\ UNCHANGED <<scopesVars, urlVars, userVars, txnVars, postVars, iterVars>>
    \/ OtherMakeUrl /\ UNCHANGED <<scopesVars, urlVars, userVars, txnVars, postVars, iterVars>>
    \/ OtherFetchUser /\ UNCHANGED <<scopesVars, urlVars, userVars, txnVars, postVars, iterVars>>
SpecDefaults == InitDefaults /\ [][NextDefaults]_vars

\* Two consumers of one user: the User(1916), then the iter() call and the
\* next() calls of a first consumer and of a second one, interleaved in any
\* way; each consumer calls iter() once.
UserUndecoded ==
    /\ wire = [id |-> PyInt(1916)]
    /\ wire_legacy = FALSE
    /\ decoded = NoDecode
    /\ encoded = NoDict
    /\ redecoded = NoDecode
InitIter ==
    /\ ScopesIdle /\ UrlIdle /\ UserIdle /\ TxnIdle /\ PostIdle /\ DefaultsIdle
    /\ IterIdle
NextIter ==
    \/ it_state = "idle" /\ Iter /\ UNCHANGED <<scopesVars, urlVars, txnVars, postVars, defaultsVars, iterVars>>
    \/ Next_ /\ UNCHANGED <<scopesVars, urlVars, txnVars, postVars, defaultsVars, iterVars>>
    \/ IterOther /\ UNCHANGED <<scopesVars, urlVars, txnVars, postVars, defaultsVars>>
    \/ NextOther /\ UNCHANGED <<scopesVars, urlVars, txnVars, postVars, defaultsVars>>
SpecIter == InitIter /\ [][NextIter]_vars

\* The components share no state: a behaviour of Spec exercises one of them and
\* leaves the others as they were built.
Init == InitScopes \/ InitUrl \/ InitUser \/ InitTxn \/ InitPost \/ InitDefaults
            \/ InitIter
Next ==
    \/ NextScopes /\ UrlIdle /\ UserIdle /\ TxnIdle /\ PostIdle /\ DefaultsIdle /\ IterIdle
    \/ NextUrl /\ ScopesIdle /\ UserIdle /\ TxnIdle /\ PostIdle /\ DefaultsIdle /\ IterIdle
    \/ NextUser /\ ScopesIdle /\ UrlIdle /\ TxnIdle /\ PostIdle /\ DefaultsIdle /\ IterIdle
    \/ NextTxn /\ ScopesIdle /\ UrlIdle /\ UserIdle /\ PostIdle /\ DefaultsIdle /\ IterIdle
    \/ NextPost /\ ScopesIdle /\ UrlIdle /\ UserIdle /\ TxnIdle /\ DefaultsIdle /\ IterIdle
    \/ NextDefaults /\ ScopesIdle /\ UrlIdle /\ UserIdle /\ TxnIdle /\ PostIdle /\ IterIdle
    \/ NextIter /\ ScopesIdle /\ UrlIdle /\ UserUndecoded /\ TxnIdle /\ PostIdle /\ DefaultsIdle
Spec == Init /\ [][Next]_vars

-----------------------------------------------------------------------------
(* What a reader of a URL does: split, percent-decode, base64-decode *)

HexValue(c) == IF c \in 48..57 THEN c - 48 ELSE c - 55

RECURSIVE unquote_plus(_)
\* urllib.parse.unquote_plus: '+' is a space, %XX is the character numbered XX
unquote_plus(s) ==
    IF s = <<>> THEN <<>>
    ELSE IF s[1] = 37 /\ Len(s) >= 3
         THEN <<16 * HexValue(s[2]) + HexValue(s[3])>> \o unquote_plus(SubSeq(s, 4, Len(s)))
    ELSE IF s[1] = 43 THEN <<32>> \o unquote_plus(Tail(s))
    ELSE <<s[1]>> \o unquote_plus(Tail(s))

\* The value of a character of the standard base64 alphabet; 64 for any other.
B64Value(c) ==
    IF c \in 65..90 THEN c - 65
    ELSE IF c \in 97..122 THEN c - 97 + 26
    ELSE IF c \in 48..57 THEN c - 48 + 52
    ELSE IF c = 43 THEN 62
    ELSE IF c = 47 THEN 63
    ELSE 64

RECURSIVE b64decode(_)
\* base64.b64decode of a padded string; <<256>> marks a string that does not decode.
b64decode(s) ==
    IF s = <<>> THEN <<>>
    ELSE IF Len(s) < 4 THEN <<256>>
    ELSE LET v1 == B64Value(s[1])
             v2 == B64Value(s[2])
             v3 == B64Value(s[3])
             v4 == B64Value(s[4])
         IN  IF v1 = 64 \/ v2 = 64 THEN <<256>>
             ELSE IF s[3] = 61 /\ s[4] = 61 /\ Len(s) = 4
                  THEN <<v1 * 4 + (v2 \div 16)>>
             ELSE IF v3 = 64 THEN <<256>>
             ELSE IF s[4] = 61 /\ Len(s) = 4
                  THEN <<v1 * 4 + (v2 \div 16), (v2 % 16) * 16 + (v3 \div 4)>>
             ELSE IF v4 = 64 THEN <<256>>
             ELSE <<v1 * 4 + (v2 \div 16), (v2 % 16) * 16 + (v3 \div 4),
                    (v3 % 4) * 64 + v4>> \o b64decode(SubSeq(s, 5, Len(s)))

\* The query string of a URL: what follows its first '?'.
QueryOf(url) ==
    LET parts == SplitOn(url, 63)
    IN  IF Len(parts) < 2 THEN <<>> ELSE Join(<<63>>, Tail(parts))

\* The key=value fields of the query that carry `key`.
ParamFields(url, key) ==
    SelectSeq(SplitOn(QueryOf(url), 38),
              LAMBDA f : Len(SplitOn(f, 61)) >= 2 /\ SplitOn(f, 61)[1] = key)

\* The still-encoded value of the query parameter `key`, which the URL carries once.
ParamOf(url, key) == Join(<<61>>, Tail(SplitOn(ParamFields(url, key)[1], 61)))

-----------------------------------------------------------------------------
(* Claims *)

MadeUrl        == call.op = "make_url" /\ result.kind # "none"
MadePaymentUrl == call.op = "make_payment_url" /\ result.kind # "none"
ExplicitAscii  == call.redirect_uri.kind = "str" /\ IsAscii(call.redirect_uri.s)

\* C1, as the claim states it: after Scopes(profile, email, balance, discord), for
\* every combination of the four arguments, balance or discord true implies
\* profile true.
C1_BalanceOrDiscordImpliesProfile ==
    sc_op = "init" => ((scopes.balance \/ scopes.discord) => scopes.profile)

\* C1, amended: after Scopes(profile, email, balance, discord) with balance or
\* discord true and email false, profile is true (with email true it is false).
C1_BalanceOrDiscordWithoutEmailImpliesProfile ==
    sc_op = "init" =>
        /\ scopes.email = sc_args.email
        /\ scopes.balance = sc_args.balance
        /\ scopes.discord = sc_args.discord
        /\ ((sc_args.balance \/ sc_args.discord) /\ ~sc_args.email => scopes.profile)

C1_Witness ==
    /\ sc_op = "init"
    /\ ~sc_args.profile /\ ~sc_args.email /\ sc_args.balance /\ ~sc_args.discord
    /\ scopes.profile

\* C2: after Scopes(profile, email, balance, discord), for every combination of
\* the four arguments, email true implies profile false: profile and email are
\* never both true right after construction.
C2_EmailImpliesNotProfile ==
    sc_op = "init" =>
        /\ (sc_args.email => ~scopes.profile)
        /\ ~(scopes.profile /\ scopes.email)

C2_Witness ==
    /\ sc_op = "init"
    /\ sc_args.profile /\ sc_args.email /\ sc_args.balance /\ sc_args.discord
    /\ scopes.email /\ ~scopes.profile

\* The names of the flags of s that are true, in the order profile, email,
\* balance, discord.
TrueFlagNames(s) ==
    (IF s.profile THEN <<S_profile>> ELSE <<>>) \o
    (IF s.email   THEN <<S_email>>   ELSE <<>>) \o
    (IF s.balance THEN <<S_balance>> ELSE <<>>) \o
    (IF s.discord THEN <<S_discord>> ELSE <<>>)

\* C3: for every Scopes value, as_list is the names of the flags that are true,
\* in the order profile, email, balance, discord, and str(scopes) is that list
\* joined with commas: splitting it at its commas gives the list back, and it is
\* the empty string when no flag is true.
C3_ListAndStrOfTrueFlags ==
    /\ as_list(scopes) = TrueFlagNames(scopes)
    /\ sc_op = "str" =>
          /\ sc_list = TrueFlagNames(scopes)
          /\ IF sc_list = <<>> THEN sc_str = <<>>
             ELSE SplitOn(sc_str, 44) = sc_list

C3_Witness ==
    /\ sc_op = "str"
    /\ scopes.profile /\ scopes.email /\ ~scopes.balance /\ scopes.discord
    /\ sc_str = S_profile \o <<44>> \o S_email \o <<44>> \o S_discord

\* C4: after Scopes(...) with balance or discord selected, at least one of email
\* and profile is selected, and profile is the one selected when neither was given.
C4_BalanceOrDiscordImpliesEmailOrProfile ==
    sc_op = "init" /\ (sc_args.balance \/ sc_args.discord) =>
        /\ scopes.email \/ scopes.profile
        /\ (~sc_args.email /\ ~sc_args.profile => scopes.profile /\ ~scopes.email)

C4_Witness ==
    /\ sc_op = "init"
    /\ ~sc_args.profile /\ ~sc_args.email /\ ~sc_args.balance /\ sc_args.discord
    /\ scopes.profile /\ ~scopes.email

\* C5: make_url with an explicit ASCII redirect URI never raises the redirect
\* error and returns a non-empty URL, whatever the client's default_redirects.
C5_ExplicitRedirectNeverRaises ==
    MadeUrl /\ ExplicitAscii =>
        /\ ~(result.kind = "raise" /\ result.exc \in {"RedirectUriNone", "ValueError"})
        /\ result.kind = "return"
        /\ Len(result.url) > 0

C5_Witness ==
    /\ MadeUrl /\ ExplicitAscii
    /\ client = Client_init(FALSE, TestClientId, TestSecret,
                            SomeScopes(Scopes_init(TRUE, FALSE, FALSE, FALSE)), NoDict)
    /\ Len(call.redirect_uri.s) = MaxLen
    /\ result.kind = "return"

\* C6: make_url without a redirect URI, on a client whose default_redirects['auth']
\* is None, raises RedirectUriNone and returns no URL, for every scopes argument
\* and every site.
C6_NoRedirectRaisesRedirectUriNone ==
    ( /\ MadeUrl /\ ~client.legacy
      /\ call.redirect_uri = None
      /\ "auth" \in DOMAIN client.default_redirects
      /\ client.default_redirects["auth"] = None )
    => result = Raise("RedirectUriNone")

C6_Witness ==
    /\ MadeUrl /\ ~client.legacy
    /\ call.redirect_uri = None
    /\ call.scopes.given
    /\ client.default_redirects = [site |-> PyStr(<<115>>), auth |-> None,
                                   pay |-> PyStr(<<112>>)]
    /\ result = Raise("RedirectUriNone")

\* C7, as the claim states it: make_payment_url without a redirect URI raises
\* RedirectUriNone whenever default_redirects holds no 'pay' template (the entry
\* is None or the key is not there), and with an explicit redirect URI it never
\* raises RedirectUriNone.
C7_NoPayTemplateRaisesRedirectUriNone ==
    MadePaymentUrl /\ ~client.legacy =>
        /\ ( /\ call.redirect_uri = None
             /\ \/ "pay" \notin DOMAIN client.default_redirects
                \/ client.default_redirects["pay"] = None )
           => result = Raise("RedirectUriNone")
        /\ call.redirect_uri # None => result # Raise("RedirectUriNone")

\* C8: for an explicit ASCII redirect URI s, the URL make_url returns carries a
\* redirect_uri parameter which, percent-decoded and then base64-decoded, is s.
C8_RedirectRoundTrip ==
    MadeUrl /\ ExplicitAscii =>
        /\ result.kind = "return"
        /\ Len(ParamFields(result.url, S_redirect_uri)) = 1
        /\ b64decode(unquote_plus(ParamOf(result.url, S_redirect_uri)))
               = call.redirect_uri.s

C8_Witness ==
    /\ MadeUrl
    /\ call.redirect_uri = PyStr(<<123, 125, 126>>)                 \* '{}~'
    /\ "site" \in DOMAIN client.default_redirects
    /\ client.default_redirects["site"] = PyStr(<<115>>)
    /\ result.kind = "return"
    /\ ParamOf(result.url, S_redirect_uri) = <<101, 51, 49, 37, 50, 66>>  \* 'e31%2B'

\* The six pairs of the claim: the names id, name, email, growid, balance,
\* discord_id, each with the value stored on the user.
SixPairs(u) ==
    << <<S_id, u.id>>, <<S_name, u.name>>, <<S_email, u.email>>,
       <<S_growid, u.growid>>, <<S_balance, u.balance>>,
       <<S_discord_id, u.discord_id>> >>

\* C9, as the claim states it: an iteration of a User that has run to its
\* StopIteration has yielded exactly the six pairs id, name, email, growid,
\* balance, discord_id, in this order, each with the stored value.
C9_IterationYieldsSixPairsInOrder ==
    it_state = "stopped" => out = SixPairs(user)

OptionalKeys == {"name", "email", "growid", "balance"}

\* C10: User.from_dict of user.py, given a dict that holds 'id' and whose
\* 'discordID' is missing, None, an int or a numeric string, returns a User; on it
\* every optional key that is missing is None (not 0, '' or 'None'), every key
\* that is present keeps its wire value, and a present discordID is the int
\* discord_id ('42' is 42, '007' is 7).
C10_MissingKeysAreNone ==
    ~wire_legacy /\ decoded.kind # "none" =>
        /\ ( /\ "id" \in DOMAIN wire
             /\ Get(wire, "discordID") \in
                   {None, PyInt(42), PyStr(<<52, 50>>), PyStr(<<48, 48, 55>>)} )
           => decoded.kind = "return"
        /\ decoded.kind = "return" =>
              /\ user = decoded.user
              /\ user.id = wire["id"]
              /\ \A k \in OptionalKeys :
                    IF k \in DOMAIN wire THEN user[k] = wire[k]
                    ELSE /\ user[k] = None
                         /\ user[k] \notin {PyInt(0), PyStr(<<>>),
                                            PyStr(<<78, 111, 110, 101>>)}
              /\ Get(wire, "discordID") = None => user.discord_id = None
              /\ Get(wire, "discordID") = PyInt(42) => user.discord_id = PyInt(42)
              /\ Get(wire, "discordID") = PyStr(<<52, 50>>) => user.discord_id = PyInt(42)
              /\ Get(wire, "discordID") = PyStr(<<48, 48, 55>>) => user.discord_id = PyInt(7)

C10_Witness ==
    /\ ~wire_legacy /\ decoded.kind = "return"
    /\ wire = [id |-> PyInt(1916), discordID |-> PyStr(<<48, 48, 55>>)]
    /\ user.discord_id = PyInt(7)
    /\ user.name = None /\ user.email = None /\ user.growid = None
    /\ user.balance = None

\* C11, as the claim states it: for every User u of user.py, whatever optional
\* fields it holds (discord_id None included), User.from_dict(u.as_dict())
\* returns a User with the same id and the same value of every field, a field
\* that is None staying None.
C11_AsDictFromDictRoundTrip ==
    ~user.legacy /\ redecoded.kind # "none" =>
        /\ redecoded.kind = "return"
        /\ redecoded.user = user

\* C12, as the claim states it: after Transaction.from_dict decodes a dict whose
\* 'user' is the bare id n, transaction.user is a User whose id is n (the raw id
\* wrapped once) and whose other fields are None.
C12_UserWrappedOnce ==
    t_call.op = "from_dict" /\ txn.kind = "return" =>
        txn.t.user = User_init(FALSE, t_call.d["user"], None, None, None, None, None)

\* The exceptions by which the decoders reject a dict: the library defines no
\* DecodeError, a missing key is a KeyError and a value int() refuses is a
\* ValueError or a TypeError.
DecodeErrors == {"DecodeError", "KeyError", "ValueError", "TypeError"}

\* C13, as the claim states it: User.from_dict fails, and returns no User, when
\* 'id' is missing or is not integer-coercible; Transaction.from_dict fails, and
\* returns no Transaction, when one of its six keys is missing or status is not
\* integer-coercible.
C13_BadShapeFailsToDecode ==
    /\ ( /\ ~wire_legacy /\ decoded.kind # "none"
         /\ ("id" \notin DOMAIN wire \/ ~IntOk(wire["id"])) )
       => (decoded.kind = "raise" /\ decoded.exc \in DecodeErrors)
    /\ ( /\ t_call.op = "from_dict" /\ txn.kind # "none"
         /\ \/ \E k \in TransactionKeys : k \notin DOMAIN t_call.d
            \/ ~IntOk(t_call.d["status"]) )
       => (txn.kind = "raise" /\ txn.exc \in DecodeErrors)

\* C14: for every Transaction whose status is None or integer-coercible, paid is
\* None when status is None, False when status is zero and True when it is not;
\* a Transaction decoded from the wire status '1' has paid True, from '0' False.
C14_PaidFollowsStatus ==
    paid_read.kind # "none" /\ (txn.t.status.kind = "none" \/ IntOk(txn.t.status)) =>
        /\ paid_read.kind = "return"
        /\ paid_read.v = IF txn.t.status.kind = "none" THEN None
                         ELSE IF IntOf(txn.t.status) = 0 THEN PyBool(FALSE)
                         ELSE PyBool(TRUE)
        /\ t_call.op = "from_dict" =>
              /\ t_call.d["status"] = PyStr(<<49>>) => paid_read.v = PyBool(TRUE)
              /\ t_call.d["status"] = PyStr(<<48>>) => paid_read.v = PyBool(FALSE)

C14_Witness ==
    /\ t_call.op = "from_dict"
    /\ txn.kind = "return"
    /\ t_call.d["status"] = PyStr(<<48>>)
    /\ txn.t.status = PyInt(0)
    /\ paid_read = PaidOk(PyBool(FALSE))

\* A string in the format 'YYYY-MM-DD HH:MM:SS' that names a date and a time.
MatchesFixedFormat(x) ==
    /\ Len(x) = 19
    /\ x[5] = 45 /\ x[8] = 45 /\ x[11] = 32 /\ x[14] = 58 /\ x[17] = 58
    /\ \A j \in (1..19) \ {5, 8, 11, 14, 17} : x[j] \in 48..57
    /\ DigitsValue(SubSeq(x, 1, 4)) >= 1
    /\ DigitsValue(SubSeq(x, 6, 7)) \in 1..12
    /\ DigitsValue(SubSeq(x, 9, 10)) >= 1
    /\ DigitsValue(SubSeq(x, 9, 10))
           <= DaysInMonth(DigitsValue(SubSeq(x, 1, 4)), DigitsValue(SubSeq(x, 6, 7)))
    /\ DigitsValue(SubSeq(x, 12, 13)) <= 23
    /\ DigitsValue(SubSeq(x, 15, 16)) <= 59
    /\ DigitsValue(SubSeq(x, 18, 19)) <= 59

\* The timestamp that a string in the format names.
TimestampOf(x) ==
    PyDatetime(<<DigitsValue(SubSeq(x, 1, 4)), DigitsValue(SubSeq(x, 6, 7)),
                 DigitsValue(SubSeq(x, 9, 10)), DigitsValue(SubSeq(x, 12, 13)),
                 DigitsValue(SubSeq(x, 15, 16)), DigitsValue(SubSeq(x, 18, 19))>>)

\* C15, as the claim states it: Transaction.from_dict given a date_time string
\* that is not in the format 'YYYY-MM-DD HH:MM:SS' fails with the parse error
\* (the ValueError of strptime; the library defines no ParseError) and returns no
\* Transaction; given a string in the format, the datetime stored is the
\* timestamp of the string; a Transaction constructed without date_time has
\* datetime None and its construction does not fail.
C15_DateTimeParsedOrRejected ==
    /\ ( /\ t_call.op = "from_dict" /\ txn.kind # "none"
         /\ \A k \in TransactionKeys : k \in DOMAIN t_call.d
         /\ IntOk(t_call.d["status"])
         /\ t_call.d["date_time"].kind = "str" )
       => IF MatchesFixedFormat(t_call.d["date_time"].s)
          THEN /\ txn.kind = "return"
               /\ txn.t.datetime = TimestampOf(t_call.d["date_time"].s)
          ELSE /\ txn.kind = "raise"
               /\ txn.exc \in {"ParseError", "ValueError"}
    /\ (t_call.op = "init" /\ txn.kind # "none" /\ t_call.date_time = None)
       => (txn.kind = "return" /\ txn.t.datetime = None)


\* 'Request to api was unsuccessful: ', the message of RequestFailure up to its argument
UnsuccessfulPrefix == SubSeq(S_unsuccessful, 1, 33)

\* The envelope of the answer holds `success` with the value v.
EnvelopeSuccessIs(v) ==
    /\ server.kind = "json"
    /\ server.v.kind = "dict"
    /\ DictHas(server.v.s, KeyChars.success)
    /\ DictGet(server.v.s, KeyChars.success) = v

\* C16: on a requests session and on an aiohttp session alike, every POST
\* operation of wrapper.py that is answered with an envelope whose success is
\* false ends by raising RequestFailure, whose message carries the envelope; it
\* returns no value.
C16_FailureEnvelopeRaises ==
    (pc = "done" /\ ~req.client.legacy /\ EnvelopeSuccessIs(PyBool(FALSE)))
        => outcome = Raised("RequestFailure", UnsuccessfulPrefix \o ReprOf(server.v))

\* An awaited create_transaction answered {'success': False, 'error': 'bad token'}.
C16_Witness ==
    /\ pc = "done"
    /\ req.op = "create_transaction"
    /\ req.client.session = "aiohttp"
    /\ EnvelopeSuccessIs(PyBool(FALSE))
    /\ DictHas(server.v.s, KeyChars.error)
    /\ outcome.exc = "RequestFailure"

\* C17: every POST operation of wrapper.py that is answered with a body that is
\* not JSON ends by raising RequestFailure, whose message carries the text of
\* the body.
C17_NonJsonRaisesRequestFailure ==
    (pc = "done" /\ ~req.client.legacy /\ server.kind = "text")
        => outcome = Raised("RequestFailure", UnsuccessfulPrefix \o server.text)

\* C18: get_balance answered with a success envelope whose balance is the str
\* '42' returns the int 42, on every client.
C18_BalanceCoerced ==
    (/\ pc = "done"
     /\ req.op = "get_balance"
     /\ EnvelopeSuccessIs(PyBool(TRUE))
     /\ Subscript(server.v, KeyChars.balance) = SubOk(PyStr(<<52, 50>>)))
        => outcome = Returned(PyInt(42))

\* C19: whatever the server answers, an operation awaited on an aiohttp session
\* ends as the same operation called on a requests session ends: with the same
\* returned value, or with an exception of the same class and message.
C19_BlockingEqualsSuspending ==
    (pc = "done" /\ req.client.session = "aiohttp" /\ server.kind # "error")
        => outcome = blocking(req.op, server)

\* C20: a call of a POST operation, awaited if it is a coroutine, has issued
\* exactly one HTTP request when it ends, to the URL of the operation, and never
\* two at any point, whether it ends with a value, with a failure envelope,
\* with a decode error or with an error of the transport.
C20_ExactlyOneRequest ==
    /\ Len(sent) <= 1
    /\ pc \in {"response", "except", "done"} =>
          /\ Len(sent) = 1
          /\ sent[1].url = S_api_url \o
                (IF req.op = "fetch_user"
                     THEN <<47, 97, 117, 116, 104, 47, 117, 115, 101, 114>>   \* '/auth/user'
                 ELSE IF req.op \in {"create_transaction", "fetch_transaction"}
                     THEN <<47, 112, 97, 121, 47, 116, 114, 97, 110, 115, 97, 99, 116,
                            105, 111, 110, 47, 99, 114, 101, 97, 116, 101>>
                                                             \* '/pay/transaction/create'
                 ELSE IF req.op = "send"
                     THEN <<47, 112, 97, 121, 47, 115, 101, 110, 100>>        \* '/pay/send'
                 ELSE <<47, 112, 97, 121, 47, 98, 97, 108, 97, 110, 99, 101>>)
                                                                       \* '/pay/balance'

\* An awaited send that the transport failed to deliver: one request, no more.
C20_Witness ==
    /\ pc = "done"
    /\ req.op = "send"
    /\ req.client.session = "aiohttp"
    /\ server.kind = "error"
    /\ outcome.kind = "raise"
    /\ Len(sent) = 1


\* C21: create_transaction answered with a success envelope returns a
\* Transaction whose id is the `transaction` of the envelope and on which
\* nothing else is set: user, party, amount, status and datetime are None and
\* paid is None; building it never fails.
C21_PartialTransactionOnlyId ==
    (/\ pc = "done"
     /\ req.op = "create_transaction"
     /\ ~req.client.legacy
     /\ EnvelopeSuccessIs(PyBool(TRUE))
     /\ DictHas(server.v.s, KeyChars.transaction))
        => /\ outcome.kind = "return"
           /\ outcome.v.kind = "transaction"
           /\ outcome.v.t.id = DictGet(server.v.s, KeyChars.transaction)
           /\ outcome.v.t.user = None
           /\ outcome.v.t.party = None
           /\ outcome.v.t.amount = None
           /\ outcome.v.t.status = None
           /\ outcome.v.t.datetime = None
           /\ paid(outcome.v.t) = PaidOk(None)


\* The one request a finished call has issued went to the URL `path` under the
\* API root, with the payload `data`.
SentOnce(path, data) == sent = << [url |-> S_api_url \o path, data |-> data] >>

\* '/pay/transaction/create', the URL create_transaction posts to
CreatePath == <<47, 112, 97, 121, 47, 116, 114, 97, 110, 115, 97, 99, 116, 105, 111, 110,
                47, 99, 114, 101, 97, 116, 101>>

\* C22: fetch_transaction posts {secret, transaction: transaction.id} to the
\* URL of create_transaction, and on a success envelope returns what
\* Transaction.from_dict makes of body.transaction: for a well-formed body all
\* six fields are set, the status as an int and the datetime parsed.
C22_FetchUsesFullDecoder ==
    (pc = "done" /\ req.op = "fetch_transaction")
        => /\ SentOnce(CreatePath, << <<KeyChars.secret, PyStr(TestSecret)>>,
                                      <<KeyChars.transaction, PyInt(TestTransactionId)>> >>)
           /\ (/\ EnvelopeSuccessIs(PyBool(TRUE))
               /\ Subscript(server.v, KeyChars.transaction)
                      = SubOk(WireTransaction(PyStr(<<49>>), PyStr(S_valid_date))))
                 => /\ outcome.kind = "return"
                    /\ outcome.v.kind = "transaction"
                    /\ outcome.v.t.id = PyInt(TestTransactionId)
                    /\ outcome.v.t.user # None
                    /\ outcome.v.t.party = PyInt(7)
                    /\ outcome.v.t.amount = PyInt(5)
                    /\ outcome.v.t.status = PyInt(1)
                    /\ outcome.v.t.datetime = PyDatetime(<<2021, 5, 1, 1, 2, 3>>)

\* An awaited fetch_transaction that returned the fully decoded Transaction.
C22_Witness ==
    /\ pc = "done"
    /\ req.op = "fetch_transaction"
    /\ req.client.session = "aiohttp"
    /\ EnvelopeSuccessIs(PyBool(TRUE))
    /\ outcome.kind = "return"
    /\ outcome.v.kind = "transaction"
    /\ outcome.v.t.status = PyInt(1)
    /\ outcome.v.t.datetime = PyDatetime(<<2021, 5, 1, 1, 2, 3>>)


\* C23: send posts {secret, party: user.id, amount, notes} to '/pay/send', the
\* notes item being there also when notes is None or '', and on a success
\* envelope returns the decoded envelope itself.
C23_SendKeepsNotesReturnsEnvelope ==
    (pc = "done" /\ req.op = "send")
        => /\ SentOnce(<<47, 112, 97, 121, 47, 115, 101, 110, 100>>,          \* '/pay/send'
                       << <<KeyChars.secret, PyStr(TestSecret)>>,
                          <<KeyChars.party, PyInt(42)>>,
                          <<KeyChars.amount, PyInt(5)>>,
                          <<KeyChars.notes, req.notes>> >>)
           /\ EnvelopeSuccessIs(PyBool(TRUE)) => outcome = Returned(server.v)

\* A send without notes that returned the envelope it was answered with.
C23_Witness ==
    /\ pc = "done"
    /\ req.op = "send"
    /\ req.notes = None
    /\ EnvelopeSuccessIs(PyBool(TRUE))
    /\ Len(sent) = 1
    /\ DictHas(sent[1].data, KeyChars.notes)
    /\ outcome = Returned(server.v)


\* The payload fetch_user is to build from the call and the client as they are
\* now: the scopes are those of the argument if one is given, else the default
\* scopes of the client, and there is no scopes item if both are None.
FetchUserPayloadNow ==
    LET scopes_ == IF req.scopes.given THEN req.scopes ELSE req.client.default_scopes
    IN  << <<KeyChars.secret, PyStr(TestSecret)>>, <<KeyChars.token, req.token>> >> \o
        (IF scopes_.given THEN << <<KeyChars.scopes, PyStr(Scopes_str(scopes_.v))>> >>
         ELSE <<>>)

\* What a finished fetch_user has done: one request to '/auth/user' with the
\* payload built at the call, and on a success envelope with a well-formed
\* user the decoded User.
FetchUserDone ==
    (pc = "done" /\ req.op = "fetch_user")
        => /\ SentOnce(<<47, 97, 117, 116, 104, 47, 117, 115, 101, 114>>, resp.data)
                                                                        \* '/auth/user'
           /\ (/\ EnvelopeSuccessIs(PyBool(TRUE))
               /\ Subscript(server.v, KeyChars.user)
                      = SubOk(PyDict(<< <<KeyChars.id, PyInt(1916)>>,
                                        <<KeyChars.name, PyStr(<<66, 111, 98>>)>>,
                                        <<KeyChars.discordID, PyStr(<<52, 50>>)>> >>)))
                 => outcome = Returned(PyUser(User_init(FALSE, PyInt(1916),
                                                        PyStr(<<66, 111, 98>>), None, None,
                                                        None, PyInt(42))))

\* C24: the payload of fetch_user is {secret, token, scopes}; the scopes are the
\* serialization of the scopes argument if one is given, else of the
\* default_scopes the client has when the call is made, reassigned or not; the
\* scopes item is left out exactly when there are no scopes; on success the
\* User decoded from body.user is returned.
C24_FetchUserPayloadAndUser ==
    /\ []FetchUserDone
    /\ [][(pc = "idle" /\ pc' # "idle" /\ req.op = "fetch_user")
              => resp'.data = FetchUserPayloadNow]_vars

\* A fetch_user without a scopes argument, made after default_scopes was
\* reassigned, that sent the reassigned scopes and returned the User.
C24_Witness ==
    /\ pc = "done"
    /\ req.op = "fetch_user"
    /\ ~req.scopes.given
    /\ req.client.default_scopes = SomeScopes(Scopes_init(TRUE, FALSE, TRUE, TRUE))
    /\ Len(sent) = 1
    /\ DictHas(sent[1].data, KeyChars.scopes)
    /\ DictGet(sent[1].data, KeyChars.scopes)
           = PyStr(Scopes_str(Scopes_init(TRUE, FALSE, TRUE, TRUE)))
    /\ outcome.kind = "return"
    /\ outcome.v.kind = "user"


\* C25: an error of the transport during an operation (no answer, or the
\* cancellation of the task while the answer is read) reaches the caller as it
\* was raised: the error of the transport, or CancelledError, and nothing else.
C25_TransportErrorUnchanged ==
    (pc = "done" /\ server.kind \in {"error", "cancelled"})
        => /\ outcome.kind = "raise"
           /\ outcome.exc = IF server.kind = "cancelled" THEN "asyncio.CancelledError"
                            ELSE transport_error(req.client.session)


\* The await expressions of ret_coro that wait for the transport call and for a
\* read of the response body, in the order of the code.
TransportAndBodyAwaits == <<"resp_", "resp_val.json()", "resp_val.text()">>

\* C26 as stated: in suspending mode an operation suspends only at the
\* transport call and at the decoding of the body, at two points at most, on
\* every path; nothing else suspends.
C26_AtMostTwoSuspensions ==
    /\ \A j \in 1..Len(awaited) : awaited[j] \in {"resp_", "resp_val.json()", "resp_val.text()"}
    /\ Len(awaited) <= 2

\* C26, amended: every suspension of an operation is at the transport call or
\* at a read of the response body, in that order and each at most once: two
\* awaits per call, and a third one, the read of the text, only in fetch_user
\* where json() has failed.  A call on a requests session, the URL builders and
\* the value objects never suspend.
C26_SuspendsOnlyAtTransportAndBody ==
    /\ Len(awaited) <= 3
    /\ awaited = SubSeq(TransportAndBodyAwaits, 1, Len(awaited))
    /\ Len(awaited) = 3 => req.op = "fetch_user" /\ server.kind \in {"text", "cancelled"}
    /\ req.client.session = "requests" => awaited = <<>>
    /\ pc = "done" /\ req.client.session = "aiohttp" => Len(awaited) >= 1

\* An awaited fetch_user answered with a body that is not JSON: three awaits.
C26_Witness ==
    /\ pc = "done"
    /\ req.op = "fetch_user"
    /\ server.kind = "text"
    /\ awaited = TransportAndBodyAwaits
    /\ outcome.exc = "RequestFailure"


RECURSIVE SiteSubstituted(_, _)
\* The template with each placeholder '{0}' or '{}' replaced by site, and every
\* other character kept: a template without a placeholder is itself.
SiteSubstituted(t, site) ==
    IF t = <<>> THEN <<>>
    ELSE IF Len(t) >= 3 /\ SubSeq(t, 1, 3) = <<123, 48, 125>>
        THEN site \o SiteSubstituted(SubSeq(t, 4, Len(t)), site)
    ELSE IF Len(t) >= 2 /\ SubSeq(t, 1, 2) = <<123, 125>>
        THEN site \o SiteSubstituted(SubSeq(t, 3, Len(t)), site)
    ELSE <<t[1]>> \o SiteSubstituted(Tail(t), site)

\* The URL builder was called without a redirect URI on a client whose default
\* redirects hold a site and a template under `key`.
DefaultTemplateUsed(key) ==
    /\ result.kind # "none"
    /\ call.redirect_uri = None
    /\ key \in DOMAIN client.default_redirects
    /\ "site" \in DOMAIN client.default_redirects
    /\ client.default_redirects[key].kind = "str"
    /\ client.default_redirects["site"].kind = "str"

BracesArePlaceholders(t) ==
    \A j \in 1..Len(SiteSubstituted(t, <<>>)) : SiteSubstituted(t, <<>>)[j] \notin {123, 125}

FetchingTransaction == req.op \in {"fetch_transaction", "fetch_info"}
C28_FetchLeavesArgumentAlone ==
    /\ [][FetchingTransaction =>
            /\ req'.transaction = req.transaction
            /\ paid(req'.transaction) = paid(req.transaction)]_vars
    /\ [](FetchingTransaction =>
            /\ req.transaction = TestTransaction
            /\ (outcome.kind = "return" =>
                    /\ outcome.v.kind = "transaction"
                    /\ outcome.v.t = fetched_transaction_of(server.v).v.t))

\* A successful awaited fetch: the returned transaction has
\* the amount and the status of the answer, the argument still has none.
C28_Witness ==
    /\ pc = "done"
    /\ req.op = "fetch_transaction"
    /\ req.client.session = "aiohttp"
    /\ awaited # <<>>
    /\ outcome.kind = "return"
    /\ outcome.v.t.status = PyInt(1)
    /\ outcome.v.t.amount # None
    /\ req.transaction.status = None
    /\ req.transaction.amount = None
    /\ req.transaction.user = User_init(FALSE, None, None, None, None, None, None)



\* C29: two Clients constructed without an explicit default_scopes have
\* independent default scopes: whatever flags were assigned through the
\* default_scopes of "a", the scopes "b" serializes into make_url and into the
\* fetch_user payload are the constructor default, 'profile'.
BothWithoutDefaultScopes ==
    \A c \in ClientNames : clients[c].built /\ ~clients[c].explicit
SeenScopes ==
    IF seen.op = "make_url" THEN ParamOf(seen.url, S_scopes)
    ELSE StrOf(Subscript(PyDict(seen.data), KeyChars.scopes).v)
C29_DefaultScopesIndependent ==
    (BothWithoutDefaultScopes /\ seen.op # "none") => SeenScopes = S_profile



\* C30: two iterations over the same User whose steps are interleaved each
\* yield the complete sequence of pairs of an uninterrupted iteration: a
\* consumer that has reached StopIteration has received exactly the pairs that
\* iter() followed by next() calls alone yields.
Uninterrupted(u) ==
    [k \in 1..(Len(self_info(u)) + 1) |-> PyIndex(self_info(u), k - 2)]
C30_InterleavedIterationsComplete ==
    /\ (it_state = "stopped" => out = Uninterrupted(user))
    /\ (it2_state = "stopped" => out2 = Uninterrupted(user))

=============================================================================
